---------------------------- MODULE Spec2Model ----------------------------
(***************************************************************************)
(* Term matching and match resolution of the glossary linker.              *)
(*                                                                         *)
(* Three consumers drive the shared prefix-tree cache over a text, one     *)
(* logical character at a time, and resolve the candidates it reports:     *)
(*   - the metadata bridge   (src/linker/virtualLinkMetadata.ts,           *)
(*                            collectMatchesFromText),                     *)
(*   - the read-mode linker  (src/unnamed/part_000, GlossaryLinker.onload),*)
(*   - the math-source matcher (src/main.ts, collectGlossaryMathMatches).  *)
(*                                                                         *)
(* The prefix tree (linkerCache.ts) and the VirtualMatch helpers           *)
(* (virtualLinkDom.ts) are not part of the sources at hand; they are       *)
(* modelled from the specification (sections 3, 4.2, 4.4, 4.5).            *)
(*                                                                         *)
(* Offsets are the zero-based UTF-16 offsets of the code; a text is a      *)
(* sequence of UTF-16 code units, so text[k + 1] is the unit at offset k.  *)
(***************************************************************************)
EXTENDS Integers, Sequences, FiniteSets, TLC

VARIABLES
    settings,              \* LinkerPluginSettings: the flags the scan reads
    text,                  \* the text buffer being scanned
    sourceFile,            \* the note the text belongs to
    fileCache,             \* the host's CachedMetadata of sourceFile
    consumer,              \* which consumer runs the scan
    pc,                    \* position of the consumer in its scan
    i,                     \* loop index of the scan (UTF-16 offset)
    currentNodes,          \* prefix tree: the active cursor set
    lastCharBoundary,      \* prefix tree: was the last pushed char a boundary
    matches,               \* candidates collected so far, in emission order
    explicitlyLinkedFiles, \* files with a real link in the source
    excludedIntervals,     \* exclusion ranges of the text
    linkedFiles,           \* read mode: files linked by earlier text nodes
    result,                \* the resolved match list
    pushedChars,           \* history: the chars passed to pushChar since the reset
    queriedIndices,        \* history: the indices passed to getCurrentMatchNodes
    plugin,                \* the plugin's objects and the host caches they write
    history,               \* history: the scans completed so far
    query,                 \* the argument of a position conversion
    answer                 \* the value the conversion returned

\* The plugin around the scans, and the position conversions.
hostVars == <<plugin, history>>
locVars == <<query, answer>>

\* A scan: its inputs, its locals, the prefix tree it drives.
scanVars == <<settings, text, sourceFile, fileCache, consumer, pc, i, currentNodes,
              lastCharBoundary, matches, explicitlyLinkedFiles, excludedIntervals,
              linkedFiles, result, pushedChars, queriedIndices>>

vars == <<scanVars, hostVars, locVars>>

---------------------------------------------------------------------------
(* Bounds of the model. *)

\* Longest text buffer, in UTF-16 code units.
MaxLen == 4

---------------------------------------------------------------------------
(* Inputs: code units, texts, the corpus. *)

\* Code units are written as strings; those that cannot be written as a
\* one-character string literal are named.
TICK == "tick"     \* U+0060, the backtick
NL == "\n"         \* U+000A
HI == "hi"         \* a high surrogate (U+D800..U+DBFF)
LO == "lo"         \* a low surrogate (U+DC00..U+DFFF)

\* Code units a text is drawn from: two letters, a blank and a backtick.
Alphabet == {"a", "b", " ", TICK}

Letters == {"a", "b"}

RECURSIVE TextsOfLen(_)
TextsOfLen(n) ==
    IF n = 0 THEN {<<>>}
    ELSE {Append(t, c) : t \in TextsOfLen(n - 1), c \in Alphabet}

Texts == UNION {TextsOfLen(n) : n \in 0..MaxLen}

\* The glossary corpus: three notes.
\*   A: "a", alias "b", antialias "aa"
\*   B: "ab", antialias "abb"
\*   C: "b", exact-match-only
Files == {"A", "B", "C"}

\* A note that is not a glossary entry (a possible source of the text).
NoteS == "S"

NoFile == "none"

Basename(f) ==
    CASE f = "A" -> <<"a">>
      [] f = "B" -> <<"a", "b">>
      [] f = "C" -> <<"b">>
      [] OTHER   -> <<"s">>

FrontmatterAliases(f) ==
    CASE f = "A" -> <<<<"b">>>>
      [] OTHER   -> <<>>

Antialiases(f) ==
    CASE f = "A" -> {<<"a", "a">>}
      [] f = "B" -> {<<"a", "b", "b">>}
      [] OTHER   -> {}

\* LinkerCache.cache.mapFilePathToExactMatchOnly
mapFilePathToExactMatchOnly(f) == f = "C"

\* LinkerCache.cache.setIndexedFilePaths
setIndexedFilePaths == Files

SeqToSet(s) == {s[k] : k \in 1..Len(s)}

Min(a, b) == IF a < b THEN a ELSE b
Max(a, b) == IF a > b THEN a ELSE b

\* String.prototype.slice(from, to) for 0 <= from, to.
Slice(s, from, to) ==
    LET f == Min(Max(from, 0), Len(s))
        t == Min(Max(to, 0), Len(s))
    IN  IF t <= f THEN <<>> ELSE SubSeq(s, f + 1, t)


---------------------------------------------------------------------------
(* The scan loop's view of the text. *)

\* A faulty read: the code unit at offset k, as text[k] gives it.
CodeUnitAt(s, k) == <<s[k + 1]>>

\* text.codePointAt(k) followed by String.fromCodePoint: the code units of the
\* code point that starts at offset k (a lone surrogate is one unit).
CodePointAt(s, k) ==
    IF s[k + 1] = HI /\ k + 2 <= Len(s) /\ s[k + 2] = LO
    THEN <<HI, LO>>
    ELSE <<s[k + 1]>>

\* The character the loop reads at index k; one synthetic newline at the end.
CharAt(s, k) == IF k < Len(s) THEN CodePointAt(s, k) ELSE <<NL>>

---------------------------------------------------------------------------
(* The prefix tree (PrefixTree of linkerCache.ts).                         *)

\* Code units the boundary classifier accepts: whitespace and punctuation.
BoundaryUnits == {" ", TICK, NL, "\t", "[", "]", "(", ")", "#", "-", ":", "/", "~",
                  "\\", "$", "{", "}", "_", "."}

\* PrefixTree.checkWordBoundary: whitespace, punctuation, and the emoji and
\* pictographic ranges (which lie outside the basic plane: a surrogate pair).
checkWordBoundary(char) ==
    \/ Len(char) = 1 /\ char[1] \in BoundaryUnits
    \/ char = <<HI, LO>>

\* Names a note is indexed under: its basename and, with includeAliases, the
\* aliases of its frontmatter.
IndexedNames(f) ==
    {Basename(f)} \cup
    (IF settings.includeAliases THEN SeqToSet(FrontmatterAliases(f)) ELSE {})

\* The term index: every name variant of every indexed note; empty names are
\* not indexed.
TermNames == UNION {IndexedNames(f) : f \in setIndexedFilePaths} \ {<<>>}

\* The trie's nodes: a node is the prefix that leads to it; <<>> is the root.
TrieNodes == UNION {{SubSeq(n, 1, k) : k \in 0..Len(n)} : n \in TermNames}

\* The files of a terminal node: the notes one of whose names ends there.
NodeFiles(node) == {f \in setIndexedFilePaths : node \in IndexedNames(f) /\ node # <<>>}

\* LinkerCache.reset: an empty cursor at the start of a text, which counts as
\* a word boundary.
ResetNodes == {}
ResetLastCharBoundary == TRUE

\* Whether a new path may start at the position whose previous character was a
\* boundary or not: always at a word boundary, elsewhere if matchAnyPartsOfWords
\* or matchBeginningOfWords is enabled.
MayStartPath(lastBoundary) ==
    lastBoundary \/ settings.matchAnyPartsOfWords \/ settings.matchBeginningOfWords

\* PrefixTree.pushChar: advance every path, and a new one from the root, along
\* the edge of char; paths without that edge are dropped.
pushChar(nodes, lastBoundary, char) ==
    LET started == IF MayStartPath(lastBoundary)
                   THEN {[node |-> <<>>, length |-> 0,
                          startsAtWordBoundary |-> lastBoundary]}
                   ELSE {}
    IN  {[node |-> n.node \o char,
          length |-> n.length + Len(char),
          startsAtWordBoundary |-> n.startsAtWordBoundary] :
             n \in {c \in nodes \cup started : (c.node \o char) \in TrieNodes}}

\* The match node of a cursor path at a terminal, queried at offset index.
MatchNode(n, index, excludedNote) ==
    [start |-> index - n.length,
     end |-> index,
     files |-> NodeFiles(n.node) \ {excludedNote},
     startsAtWordBoundary |-> n.startsAtWordBoundary]

RECURSIVE LongestFirst(_)
LongestFirst(ns) ==
    IF ns = {} THEN <<>>
    ELSE LET m == CHOOSE x \in ns : \A y \in ns : (y.end - y.start) <= (x.end - x.start)
         IN  <<m>> \o LongestFirst(ns \ {m})

\* PrefixTree.getCurrentMatchNodes(index, excludedNote): the terminals the cursor
\* is at, without the excluded note, longest first.
getCurrentMatchNodes(nodes, index, excludedNote) ==
    LongestFirst({m \in {MatchNode(n, index, excludedNote) : n \in nodes} :
                     m.files # {}})

\* PrefixTree.filterFilesByMatchBoundaries: an exact-match-only note needs both
\* ends of the match at a word boundary.
filterFilesByMatchBoundaries(files, startsAtWordBoundary, endsAtWordBoundary) ==
    {f \in files : mapFilePathToExactMatchOnly(f)
                      => (startsAtWordBoundary /\ endsAtWordBoundary)}

\* Whether offset k of s is at a word boundary: the start or end of the text, or
\* next to a boundary character on the given side.
BoundaryBefore(s, k) == k <= 0 \/ (k <= Len(s) /\ checkWordBoundary(<<s[k]>>))
BoundaryAfter(s, k) == k >= Len(s) \/ (k >= 0 /\ checkWordBoundary(<<s[k + 1]>>))

RECURSIVE WordStart(_, _)
WordStart(s, k) == IF BoundaryBefore(s, k) THEN k ELSE WordStart(s, k - 1)

RECURSIVE WordEnd(_, _)
WordEnd(s, k) == IF BoundaryAfter(s, k) THEN k ELSE WordEnd(s, k + 1)

\* PrefixTree.isMatchExcludedByAntialias: the word surrounding the match is an
\* antialias of one of the match's files.
isMatchExcludedByAntialias(s, from, to, files) ==
    LET word == Slice(s, WordStart(s, from), WordEnd(s, to))
    IN  \E f \in files : word \in Antialiases(f)


---------------------------------------------------------------------------
(* VirtualMatch (virtualLinkDom.ts): the resolver's steps.                  *)

\* new VirtualMatch(app, id, originText, from, to, files, isAlias, isSubWord,
\* settings): the fields the resolver reads.
VirtualMatch(from, to, files, isSubWord) ==
    [from |-> from, to |-> to, files |-> files, isSubWord |-> isSubWord]

\* The order of VirtualMatch.sort: from ascending, longer first on a tie.
Before(a, b) ==
    \/ a.from < b.from
    \/ a.from = b.from /\ (a.to - a.from) > (b.to - b.from)

RECURSIVE InsertSorted(_, _)
InsertSorted(m, ms) ==
    IF ms = <<>> THEN <<m>>
    ELSE IF Before(m, Head(ms)) THEN <<m>> \o ms
    ELSE <<Head(ms)>> \o InsertSorted(m, Tail(ms))

RECURSIVE SortMatches(_)
\* VirtualMatch.sort (stable).
SortMatches(ms) ==
    IF ms = <<>> THEN <<>>
    ELSE InsertSorted(ms[Len(ms)], SortMatches(SubSeq(ms, 1, Len(ms) - 1)))

\* VirtualMatch.filterAlreadyLinked: drop the candidates whose only targets are
\* already linked.
filterAlreadyLinked(ms, linked) ==
    LET Keep(m) == ~(m.files \subseteq linked)
    IN  SelectSeq(ms, Keep)

\* [from, to) meets one of the half-open ranges.
IntersectsAny(from, to, ranges) ==
    \E r \in ranges : from < r[2] /\ to > r[1]

\* Candidates outside every exclusion range.
DropExcluded(ms, excluded) ==
    LET Keep(m) == ~IntersectsAny(m.from, m.to, excluded)
    IN  SelectSeq(ms, Keep)

RECURSIVE LinkOncePass(_, _)
\* Link once: one pass in sorted order, dropping a candidate once all of its
\* targets have appeared in a candidate accepted before it.
LinkOncePass(ms, seen) ==
    IF ms = <<>> THEN <<>>
    ELSE IF Head(ms).files \subseteq seen
         THEN LinkOncePass(Tail(ms), seen)
         ELSE <<Head(ms)>> \o LinkOncePass(Tail(ms), seen \cup Head(ms).files)

RECURSIVE GreedyNonOverlapping(_, _)
\* Greedy overlap filter: keep a candidate only if it starts at or after the end
\* of the last kept one.
GreedyNonOverlapping(ms, lastTo) ==
    IF ms = <<>> THEN <<>>
    ELSE IF Head(ms).from >= lastTo
         THEN <<Head(ms)>> \o GreedyNonOverlapping(Tail(ms), Head(ms).to)
         ELSE GreedyNonOverlapping(Tail(ms), lastTo)

\* VirtualMatch.filterOverlapping(matches, onlyLinkOnce, excludedIntervalTree):
\* candidates in an exclusion range are discarded first, then link once, then
\* the overlap filter.
filterOverlapping(ms, onlyLinkOnce, excluded) ==
    LET kept == DropExcluded(ms, excluded)
        once == IF onlyLinkOnce THEN LinkOncePass(kept, {}) ELSE kept
    IN  GreedyNonOverlapping(once, 0)


---------------------------------------------------------------------------
(* Exclusion ranges of the bridge (buildExcludedIntervalTree).              *)

NoMatch == -1

\* The unit at offset k, or a value no unit equals when k is out of range.
UnitAt(s, k) == IF k >= 0 /\ k < Len(s) THEN s[k + 1] ELSE "eof"

RECURSIVE RunLength(_, _, _)
\* Number of consecutive units from offset k that belong to set.
RunLength(s, k, set) ==
    IF UnitAt(s, k) \in set THEN 1 + RunLength(s, k + 1, set) ELSE 0

RECURSIVE RunLengthNot(_, _, _)
\* Number of consecutive units from offset k that do not belong to set.
RunLengthNot(s, k, set) ==
    IF k < Len(s) /\ UnitAt(s, k) \notin set THEN 1 + RunLengthNot(s, k + 1, set) ELSE 0

WhitespaceUnits == {" ", "\t", NL}

\* The three units at offset k are all d.
Triple(s, k, d) == UnitAt(s, k) = d /\ UnitAt(s, k + 1) = d /\ UnitAt(s, k + 2) = d

\* /```[\s\S]*?```|~~~[\s\S]*?~~~/ at offset p: the end of the match, or NoMatch.
FenceAt(s, p) ==
    LET Close(d) == {q \in (p + 3)..(Len(s) - 3) : Triple(s, q, d)}
        EndOf(d) == IF Triple(s, p, d) /\ Close(d) # {}
                    THEN 3 + CHOOSE q \in Close(d) : \A r \in Close(d) : q <= r
                    ELSE NoMatch
    IN  IF EndOf(TICK) # NoMatch THEN EndOf(TICK) ELSE EndOf("~")

\* /`{1,3}[^`\n]+`{1,3}/ at offset p.
InlineCodeAt(s, p) ==
    LET open == RunLength(s, p, {TICK})
        body == RunLengthNot(s, p + open, {TICK, NL})
        close == RunLength(s, p + open + body, {TICK})
    IN  IF open >= 1 /\ open <= 3 /\ body >= 1 /\ close >= 1
        THEN p + open + body + Min(close, 3)
        ELSE NoMatch

\* /\[\[[^\]]+\]\]/ at offset p.
WikiLinkAt(s, p) ==
    LET body == RunLengthNot(s, p + 2, {"]"})
        q == p + 2 + body
    IN  IF UnitAt(s, p) = "[" /\ UnitAt(s, p + 1) = "[" /\ body >= 1
           /\ UnitAt(s, q) = "]" /\ UnitAt(s, q + 1) = "]"
        THEN q + 2
        ELSE NoMatch

\* /\[[^\]]+\]\([^)]+\)/ at offset p.
MarkdownLinkAt(s, p) ==
    LET label == RunLengthNot(s, p + 1, {"]"})
        q == p + 1 + label
        dest == RunLengthNot(s, q + 2, {")"})
        r == q + 2 + dest
    IN  IF UnitAt(s, p) = "[" /\ label >= 1 /\ UnitAt(s, q) = "]"
           /\ UnitAt(s, q + 1) = "(" /\ dest >= 1 /\ UnitAt(s, r) = ")"
        THEN r + 1
        ELSE NoMatch

\* /https?:\/\/[^\s)\]]+/ at offset p.
UrlAt(s, p) ==
    LET q == IF UnitAt(s, p + 4) = "s" THEN p + 5 ELSE p + 4
        rest == RunLengthNot(s, q + 3, WhitespaceUnits \cup {")", "]"})
    IN  IF UnitAt(s, p) = "h" /\ UnitAt(s, p + 1) = "t" /\ UnitAt(s, p + 2) = "t"
           /\ UnitAt(s, p + 3) = "p" /\ UnitAt(s, q) = ":" /\ UnitAt(s, q + 1) = "/"
           /\ UnitAt(s, q + 2) = "/" /\ rest >= 1
        THEN q + 3 + rest
        ELSE NoMatch

\* /^[ \t]{0,3}#{1,6}[ \t].*$/m at offset p.
HeaderAt(s, p) ==
    LET indent == RunLength(s, p, {" ", "\t"})
        hashes == RunLength(s, p + indent, {"#"})
        q == p + indent + hashes
    IN  IF (p = 0 \/ UnitAt(s, p - 1) = NL) /\ indent <= 3 /\ hashes >= 1 /\ hashes <= 6
           /\ UnitAt(s, q) \in {" ", "\t"}
        THEN q + RunLengthNot(s, q, {NL})
        ELSE NoMatch

\* The end of the named pattern's match at offset p, or NoMatch.
PatternAt(pattern, s, p) ==
    CASE pattern = "fence" -> FenceAt(s, p)
      [] pattern = "inlineCode" -> InlineCodeAt(s, p)
      [] pattern = "wikiLink" -> WikiLinkAt(s, p)
      [] pattern = "markdownLink" -> MarkdownLinkAt(s, p)
      [] pattern = "url" -> UrlAt(s, p)
      [] pattern = "header" -> HeaderAt(s, p)

RECURSIVE RegexIntervalsRestart(_, _, _)
\* A faulty addRegexIntervals: every search starts one unit after the start of
\* the last match, as if lastIndex were always advanced by one.
RegexIntervalsRestart(pattern, s, k) ==
    IF k > Len(s) THEN {}
    ELSE IF PatternAt(pattern, s, k) = NoMatch THEN RegexIntervalsRestart(pattern, s, k + 1)
    ELSE {<<k, PatternAt(pattern, s, k)>>} \cup RegexIntervalsRestart(pattern, s, k + 1)

RECURSIVE RegexIntervals(_, _, _)
\* addRegexIntervals: the matches of a global regex, found left to right, each
\* search starting where the last match ended.
RegexIntervals(pattern, s, k) ==
    IF k > Len(s) THEN {}
    ELSE IF PatternAt(pattern, s, k) = NoMatch THEN RegexIntervals(pattern, s, k + 1)
    ELSE {<<k, PatternAt(pattern, s, k)>>}
         \cup RegexIntervals(pattern, s, PatternAt(pattern, s, k))

\* buildLineOffsets
buildLineOffsets(s) ==
    LET starts == {0} \cup {k \in 1..Len(s) : s[k] = NL}
        RECURSIVE Ascending(_)
        Ascending(set) ==
            IF set = {} THEN <<>>
            ELSE LET m == CHOOSE x \in set : \A y \in set : x <= y
                 IN  <<m>> \o Ascending(set \ {m})
    IN  Ascending(starts)

\* locToOffset: a line outside the table falls back to the last line.
locToOffset(lineOffsets, line, col) ==
    LET lineOffset == IF line >= 0 /\ line < Len(lineOffsets)
                      THEN lineOffsets[line + 1]
                      ELSE IF Len(lineOffsets) > 0
                           THEN lineOffsets[Len(lineOffsets)]
                           ELSE 0
    IN  Max(0, lineOffset + col)

\* The clamp of offsetToLoc lies this far beyond the start of the last line.
OffsetSlack == 1000000

\* A faulty binary search: a line also claims the offset its successor starts at.
RECURSIVE SearchLineInclusive(_, _, _, _)
SearchLineInclusive(lineOffsets, offset, low, high) ==
    IF low > high THEN 0
    ELSE IF /\ offset >= lineOffsets[((low + high) \div 2) + 1]
            /\ \/ ((low + high) \div 2) + 1 >= Len(lineOffsets)
               \/ offset <= lineOffsets[((low + high) \div 2) + 2]
         THEN (low + high) \div 2
    ELSE IF offset < lineOffsets[((low + high) \div 2) + 1]
         THEN SearchLineInclusive(lineOffsets, offset, low, ((low + high) \div 2) - 1)
    ELSE SearchLineInclusive(lineOffsets, offset, ((low + high) \div 2) + 1, high)

\* The binary search of offsetToLoc between low and high, mid being
\* (low + high) \div 2: the line found, or 0 when the search runs empty.  The
\* last line has no successor; the code compares with MAX_SAFE_INTEGER there,
\* which no clamped offset reaches.
RECURSIVE SearchLine(_, _, _, _)
SearchLine(lineOffsets, offset, low, high) ==
    IF low > high THEN 0
    ELSE IF /\ offset >= lineOffsets[((low + high) \div 2) + 1]
            /\ \/ ((low + high) \div 2) + 1 >= Len(lineOffsets)
               \/ offset < lineOffsets[((low + high) \div 2) + 2]
         THEN (low + high) \div 2
    ELSE IF offset < lineOffsets[((low + high) \div 2) + 1]
         THEN SearchLine(lineOffsets, offset, low, ((low + high) \div 2) - 1)
    ELSE SearchLine(lineOffsets, offset, ((low + high) \div 2) + 1, high)

\* offsetToLoc
offsetToLoc(lineOffsets, rawOffset) ==
    LET lastOffset == IF Len(lineOffsets) > 0 THEN lineOffsets[Len(lineOffsets)] ELSE 0
        offset == Max(0, Min(rawOffset, lastOffset + OffsetSlack))
        line == SearchLine(lineOffsets, offset, 0, Len(lineOffsets) - 1)
        lineStart == IF line < Len(lineOffsets) THEN lineOffsets[line + 1] ELSE 0
    IN  [line |-> line, col |-> Max(0, offset - lineStart), offset |-> offset]

\* fileCache.frontmatterPosition when the note has no frontmatter.
NoPosition == [start |-> [line |-> -1, col |-> -1], end |-> [line |-> -1, col |-> -1]]

\* The frontmatter range of buildExcludedIntervalTree.
FrontmatterIntervals(s, cache) ==
    LET pos == cache.frontmatterPosition
        lineOffsets == buildLineOffsets(s)
        start == locToOffset(lineOffsets, pos.start.line, pos.start.col)
        end == locToOffset(lineOffsets, pos.end.line, pos.end.col)
    IN  IF pos # NoPosition /\ end > start THEN {<<start, end>>} ELSE {}

\* buildExcludedIntervalTree: the ranges inserted into the interval tree.
buildExcludedIntervalTree(s, cache) ==
    RegexIntervals("fence", s, 0)
    \cup RegexIntervals("inlineCode", s, 0)
    \cup RegexIntervals("wikiLink", s, 0)
    \cup RegexIntervals("markdownLink", s, 0)
    \cup RegexIntervals("url", s, 0)
    \cup (IF ~settings.includeHeaders THEN RegexIntervals("header", s, 0) ELSE {})
    \cup FrontmatterIntervals(s, cache)


---------------------------------------------------------------------------
(* The host: link resolution.                                               *)

\* metadataCache.getFirstLinkpathDest(getLinkpath(link), sourcePath): the note
\* named by the link, if there is one.
getFirstLinkpathDest(link) ==
    IF \E f \in Files : Basename(f) = link
    THEN CHOOSE f \in Files : Basename(f) = link
    ELSE NoFile

\* getExplicitlyLinkedFiles: the resolved targets of the links, embeds and
\* frontmatter links of the source note.
getExplicitlyLinkedFiles(cache) ==
    LET refs == cache.links \o cache.embeds \o cache.frontmatterLinks
    IN  {getFirstLinkpathDest(refs[k]) :
            k \in {j \in 1..Len(refs) : refs[j] # <<>>}} \ {NoFile}

\* The note excluded from the targets: the source, with excludeLinksToOwnNote.
ExcludedNote == IF settings.excludeLinksToOwnNote THEN sourceFile ELSE NoFile

---------------------------------------------------------------------------
(* The scan loop shared by the consumers.                                   *)

\* A faulty gate: candidates collected at every index.
CollectAtAlways(isWordBoundary) == TRUE

\* A faulty gate: the end setting read where the code reads the beginning one.
CollectAtEndSetting(isWordBoundary) ==
    settings.matchAnyPartsOfWords \/ settings.matchEndOfWords \/ isWordBoundary

\* The condition under which the loop asks the cache for match nodes.
CollectAt(isWordBoundary) ==
    settings.matchAnyPartsOfWords \/ settings.matchBeginningOfWords \/ isWordBoundary

\* A faulty skip: the matchEndOfWords conjunct left out.
SkipNodeIgnoringEnd(node, isWordBoundary) ==
    /\ ~settings.matchAnyPartsOfWords
    /\ settings.matchBeginningOfWords
    /\ ~node.startsAtWordBoundary
    /\ ~isWordBoundary

\* The condition under which a reported node is skipped.
SkipNode(node, isWordBoundary) ==
    /\ ~settings.matchAnyPartsOfWords
    /\ settings.matchBeginningOfWords
    /\ ~node.startsAtWordBoundary
    /\ settings.matchEndOfWords
    /\ ~isWordBoundary

\* The bridge's and the math matcher's guard on the offsets of a node.
BadOffsets(nFrom, nTo, length) == nTo <= nFrom \/ nFrom < 0 \/ nTo > length

\* The nodes the loop asks the cache for at index k.
NodesAt(k) == getCurrentMatchNodes(currentNodes, k, ExcludedNote)

---------------------------------------------------------------------------
(* The metadata bridge: collectMatchesFromText.                             *)

\* The loop body for one node: the match pushed, if any.
BridgeMatchOf(node, isWordBoundary) ==
    LET filteredFiles == filterFilesByMatchBoundaries(
                             node.files, node.startsAtWordBoundary, isWordBoundary)
    IN  IF SkipNode(node, isWordBoundary) THEN <<>>
        ELSE IF BadOffsets(node.start, node.end, Len(text)) THEN <<>>
        ELSE IF filteredFiles = {} THEN <<>>
        ELSE <<VirtualMatch(node.start, node.end, filteredFiles, ~isWordBoundary)>>

RECURSIVE BridgeForEach(_, _)
\* currentNodes.forEach: the matches pushed for the reported nodes, in order.
BridgeForEach(nodes, isWordBoundary) ==
    IF nodes = <<>> THEN <<>>
    ELSE BridgeMatchOf(Head(nodes), isWordBoundary)
         \o BridgeForEach(Tail(nodes), isWordBoundary)

\* The matches pushed at loop index k.
BridgeCollect(k, isWordBoundary) ==
    IF CollectAt(isWordBoundary) THEN BridgeForEach(NodesAt(k), isWordBoundary) ELSE <<>>

\* Faulty resolutions of the bridge.  Each differs from BridgeResolve in the
\* one step its name says.
BridgeResolveWith(ms, s, explicit, excluded, keepOverlaps, once, antialiasFirst) ==
    LET NotAntialias(m) == ~isMatchExcludedByAntialias(s, m.from, m.to, m.files)
        Anti(l) == IF settings.antialiasesEnabled THEN SelectSeq(l, NotAntialias) ELSE l
        sorted == SortMatches(ms)
        real == IF settings.excludeLinksToRealLinkedFiles
                THEN filterAlreadyLinked(sorted, explicit)
                ELSE sorted
        first == IF antialiasFirst THEN Anti(real) ELSE real
        free == IF keepOverlaps
                THEN DropExcluded(first, excluded)
                ELSE filterOverlapping(first, once, excluded)
        HasFiles(m) == m.files # {}
    IN  SelectSeq(IF antialiasFirst THEN free ELSE Anti(free), HasFiles)

\* filterOverlapping's greedy pass left out.
BridgeResolveKeepOverlaps(ms, s, explicit, excluded) ==
    BridgeResolveWith(ms, s, explicit, excluded, TRUE, settings.onlyLinkOnce, FALSE)

\* filterOverlapping called without the onlyLinkOnce flag.
BridgeResolveLinkTwice(ms, s, explicit, excluded) ==
    BridgeResolveWith(ms, s, explicit, excluded, FALSE, FALSE, FALSE)

\* filterOverlapping called without the excluded intervals.
BridgeResolveNoExclusions(ms, s, explicit, excluded) ==
    BridgeResolveWith(ms, s, explicit, {}, FALSE, settings.onlyLinkOnce, FALSE)

\* The antialias filter run before filterOverlapping.
BridgeResolveAntialiasFirst(ms, s, explicit, excluded) ==
    BridgeResolveWith(ms, s, explicit, excluded, FALSE, settings.onlyLinkOnce, TRUE)

\* A faulty resolution: alreadyLinkedFiles kept across calls, in the set the
\* read-mode linker fills.
BridgeResolveCarried(ms, s, explicit, excluded) ==
    LET sorted == SortMatches(ms)
        real == IF settings.excludeLinksToRealLinkedFiles
                THEN filterAlreadyLinked(sorted, explicit)
                ELSE sorted
        once == IF settings.onlyLinkOnce THEN filterAlreadyLinked(real, linkedFiles) ELSE real
        free == filterOverlapping(once, settings.onlyLinkOnce, excluded)
        NotAntialias(m) == ~isMatchExcludedByAntialias(s, m.from, m.to, m.files)
        anti == IF settings.antialiasesEnabled THEN SelectSeq(free, NotAntialias) ELSE free
        HasFiles(m) == m.files # {}
    IN  SelectSeq(anti, HasFiles)

\* The resolution that follows the loop.
BridgeResolve(ms, s, explicit, excluded) ==
    LET sorted == SortMatches(ms)
        real == IF settings.excludeLinksToRealLinkedFiles
                THEN filterAlreadyLinked(sorted, explicit)
                ELSE sorted
        \* alreadyLinkedFiles is a fresh set of this call
        once == IF settings.onlyLinkOnce THEN filterAlreadyLinked(real, {}) ELSE real
        free == filterOverlapping(once, settings.onlyLinkOnce, excluded)
        NotAntialias(m) == ~isMatchExcludedByAntialias(s, m.from, m.to, m.files)
        anti == IF settings.antialiasesEnabled THEN SelectSeq(free, NotAntialias) ELSE free
        HasFiles(m) == m.files # {}
    IN  SelectSeq(anti, HasFiles)

StartBridge ==
    /\ pc = "idle"
    /\ consumer' = "bridge"
    /\ pc' = "scan"
    /\ currentNodes' = ResetNodes
    /\ lastCharBoundary' = ResetLastCharBoundary
    /\ matches' = <<>>
    /\ explicitlyLinkedFiles' = getExplicitlyLinkedFiles(fileCache)
    /\ excludedIntervals' = buildExcludedIntervalTree(text, fileCache)
    /\ i' = 0
    /\ pushedChars' = <<>>
    /\ queriedIndices' = <<>>
    /\ UNCHANGED <<settings, text, sourceFile, fileCache, linkedFiles, result>>
    /\ UNCHANGED <<hostVars, locVars>>

BridgeStep ==
    /\ pc = "scan" /\ consumer = "bridge"
    /\ i <= Len(text)
    /\ LET char == CharAt(text, i)
           isWordBoundary == checkWordBoundary(char)
       IN  /\ matches' = matches \o BridgeCollect(i, isWordBoundary)
           /\ currentNodes' = pushChar(currentNodes, lastCharBoundary, char)
           /\ lastCharBoundary' = isWordBoundary
           /\ i' = i + Len(char)
           /\ queriedIndices' = IF CollectAt(isWordBoundary)
                                 THEN Append(queriedIndices, i)
                                 ELSE queriedIndices
           /\ pushedChars' = Append(pushedChars, char)
    /\ UNCHANGED <<settings, text, sourceFile, fileCache, consumer, pc,
                   explicitlyLinkedFiles, excludedIntervals, linkedFiles, result>>
    /\ UNCHANGED <<hostVars, locVars>>

BridgeFinish ==
    /\ pc = "scan" /\ consumer = "bridge"
    /\ i > Len(text)
    /\ result' = BridgeResolve(matches, text, explicitlyLinkedFiles, excludedIntervals)
    /\ pc' = "done"
    /\ UNCHANGED <<settings, text, sourceFile, fileCache, consumer, i, currentNodes,
                   lastCharBoundary, matches, explicitlyLinkedFiles,
                   excludedIntervals, linkedFiles>>
    /\ UNCHANGED <<pushedChars, queriedIndices, hostVars, locVars>>

---------------------------------------------------------------------------
(* The read-mode linker: GlossaryLinker.onload, for one text node.          *)

\* The loop body for one node: no guard on the offsets.
ReadMatchOf(node, isWordBoundary) ==
    LET filteredFiles == filterFilesByMatchBoundaries(
                             node.files, node.startsAtWordBoundary, isWordBoundary)
    IN  IF SkipNode(node, isWordBoundary) THEN <<>>
        ELSE IF filteredFiles = {} THEN <<>>
        ELSE <<VirtualMatch(node.start, node.end, filteredFiles, ~isWordBoundary)>>

RECURSIVE ReadForEach(_, _)
\* currentNodes.forEach: the matches pushed for the reported nodes, in order.
ReadForEach(nodes, isWordBoundary) ==
    IF nodes = <<>> THEN <<>>
    ELSE ReadMatchOf(Head(nodes), isWordBoundary)
         \o ReadForEach(Tail(nodes), isWordBoundary)

\* A faulty collection: the automaton asked for its nodes with the index of the
\* next iteration.
ReadCollectLateIndex(k, isWordBoundary) ==
    IF CollectAt(isWordBoundary) THEN ReadForEach(NodesAt(k + 1), isWordBoundary) ELSE <<>>

\* The matches pushed at loop index k.
ReadCollect(k, isWordBoundary) ==
    IF CollectAt(isWordBoundary) THEN ReadForEach(NodesAt(k), isWordBoundary) ELSE <<>>

\* The resolution that follows the loop; explicit is the set onload declares
\* and never adds to, linked the files of the text nodes rendered before.
ReadResolve(ms, s, explicit, linked) ==
    LET sorted == SortMatches(ms)
        real == IF settings.excludeLinksToRealLinkedFiles
                THEN filterAlreadyLinked(sorted, explicit)
                ELSE sorted
        once == IF settings.onlyLinkOnce THEN filterAlreadyLinked(real, linked) ELSE real
        free == filterOverlapping(once, settings.onlyLinkOnce, {})
        NotAntialias(m) == ~isMatchExcludedByAntialias(s, m.from, m.to, m.files)
    IN  IF settings.antialiasesEnabled THEN SelectSeq(free, NotAntialias) ELSE free

StartRead ==
    /\ pc = "idle"
    /\ settings.linkerActivated
    /\ Len(text) # 0
    /\ consumer' = "read"
    /\ pc' = "scan"
    /\ currentNodes' = ResetNodes
    /\ lastCharBoundary' = ResetLastCharBoundary
    /\ matches' = <<>>
    /\ explicitlyLinkedFiles' = {}
    /\ excludedIntervals' = {}
    /\ i' = 0
    /\ pushedChars' = <<>>
    /\ queriedIndices' = <<>>
    /\ UNCHANGED <<settings, text, sourceFile, fileCache, linkedFiles, result>>
    /\ UNCHANGED <<hostVars, locVars>>

ReadStep ==
    /\ pc = "scan" /\ consumer = "read"
    /\ i <= Len(text)
    /\ LET char == CharAt(text, i)
           isWordBoundary == checkWordBoundary(char)
       IN  /\ matches' = matches \o ReadCollect(i, isWordBoundary)
           /\ currentNodes' = pushChar(currentNodes, lastCharBoundary, char)
           /\ lastCharBoundary' = isWordBoundary
           /\ i' = i + Len(char)
           /\ queriedIndices' = IF CollectAt(isWordBoundary)
                                 THEN Append(queriedIndices, i)
                                 ELSE queriedIndices
           /\ pushedChars' = Append(pushedChars, char)
    /\ UNCHANGED <<settings, text, sourceFile, fileCache, consumer, pc,
                   explicitlyLinkedFiles, excludedIntervals, linkedFiles, result>>
    /\ UNCHANGED <<hostVars, locVars>>

ReadFinish ==
    /\ pc = "scan" /\ consumer = "read"
    /\ i > Len(text)
    /\ result' = ReadResolve(matches, text, explicitlyLinkedFiles, linkedFiles)
    /\ linkedFiles' = linkedFiles \cup UNION {result'[k].files : k \in 1..Len(result')}
    /\ pc' = "done"
    /\ UNCHANGED <<settings, text, sourceFile, fileCache, consumer, i, currentNodes,
                   lastCharBoundary, matches, explicitlyLinkedFiles,
                   excludedIntervals>>
    /\ UNCHANGED <<pushedChars, queriedIndices, hostVars, locVars>>

---------------------------------------------------------------------------
(* The math-source matcher: collectGlossaryMathMatches.                     *)

\* ASCII letters among the code units of the model ([a-zA-Z], \p{L}); the model
\* has no digits and no upper-case units, so toLowerCase changes none of them.
AsciiLetters == Letters \cup {"h", "t", "p", "s", "r", "e", "f", "o", "d", "i", "n"}

\* The units s[from..] begin with the units of lit.
LiteralAt(s, p, lit) == \A k \in 1..Len(lit) : UnitAt(s, p + k - 1) = lit[k]

\* /\\href\{[^}]*\}\{[^}]*\}/ at offset p.
HrefAt(s, p) ==
    LET first == RunLengthNot(s, p + 6, {"}"})
        q == p + 6 + first
        second == RunLengthNot(s, q + 2, {"}"})
        r == q + 2 + second
    IN  IF LiteralAt(s, p, <<"\\", "h", "r", "e", "f", "{">>) /\ UnitAt(s, q) = "}"
           /\ UnitAt(s, q + 1) = "{" /\ UnitAt(s, r) = "}"
        THEN r + 1
        ELSE NoMatch

\* /obsidian:\/\/[^\s}]+/ at offset p.
ObsidianUrlAt(s, p) ==
    LET rest == RunLengthNot(s, p + 11, WhitespaceUnits \cup {"}"})
    IN  IF LiteralAt(s, p, <<"o", "b", "s", "i", "d", "i", "a", "n", ":", "/", "/">>)
           /\ rest >= 1
        THEN p + 11 + rest
        ELSE NoMatch

\* The end of the named pattern's match at offset p, or NoMatch.
MathPatternAt(pattern, s, p) ==
    CASE pattern = "href" -> HrefAt(s, p)
      [] pattern = "obsidianUrl" -> ObsidianUrlAt(s, p)
      [] pattern = "wikiLink" -> WikiLinkAt(s, p)

RECURSIVE MathRegexIntervals(_, _, _)
\* The exec loop of collectMathExcludedRanges over one pattern.
MathRegexIntervals(pattern, s, k) ==
    IF k > Len(s) THEN {}
    ELSE IF MathPatternAt(pattern, s, k) = NoMatch
         THEN MathRegexIntervals(pattern, s, k + 1)
    ELSE {<<k, MathPatternAt(pattern, s, k)>>}
         \cup MathRegexIntervals(pattern, s, MathPatternAt(pattern, s, k))

\* collectMathExcludedRanges
collectMathExcludedRanges(s) ==
    MathRegexIntervals("href", s, 0)
    \cup MathRegexIntervals("obsidianUrl", s, 0)
    \cup MathRegexIntervals("wikiLink", s, 0)

\* rangeIntersectsAny
rangeIntersectsAny(from, to, ranges) ==
    \E r \in ranges : from < r[2] /\ to > r[1]

\* /\\[a-zA-Z]+\*?\{([^{}]*)\}/ at offset p: <<end of the match, start of the
\* group, end of the group>>, or <<NoMatch>>.
BracedCommandAt(s, p) ==
    LET name == RunLength(s, p + 1, AsciiLetters)
        star == IF UnitAt(s, p + 1 + name) = "*" THEN 1 ELSE 0
        q == p + 1 + name + star
        body == RunLengthNot(s, q + 1, {"{", "}"})
    IN  IF UnitAt(s, p) = "\\" /\ name >= 1 /\ UnitAt(s, q) = "{"
           /\ UnitAt(s, q + 1 + body) = "}"
        THEN <<q + 2 + body, q + 1, q + 1 + body>>
        ELSE <<NoMatch>>

RECURSIVE UnwrapCommandsFrom(_, _)
\* One pass of replace(/\\[a-zA-Z]+\*?\{([^{}]*)\}/g, '$1') from offset k.
UnwrapCommandsFrom(s, k) ==
    IF k >= Len(s) THEN <<>>
    ELSE LET m == BracedCommandAt(s, k)
         IN  IF m[1] = NoMatch
             THEN <<s[k + 1]>> \o UnwrapCommandsFrom(s, k + 1)
             ELSE Slice(s, m[2], m[3]) \o UnwrapCommandsFrom(s, m[1])

RECURSIVE UnwrapCommands(_)
\* The loop that unwraps braced commands until nothing changes: a pass changes
\* the text exactly when a braced command is left in it.
UnwrapCommands(s) ==
    IF \E k \in 0..Len(s) : BracedCommandAt(s, k)[1] # NoMatch
    THEN UnwrapCommands(UnwrapCommandsFrom(s, 0))
    ELSE s

RECURSIVE BlankCommands(_, _)
\* replace(/\\[a-zA-Z]+\*?/g, ' ') from offset k.
BlankCommands(s, k) ==
    IF k >= Len(s) THEN <<>>
    ELSE LET name == RunLength(s, k + 1, AsciiLetters)
             star == IF UnitAt(s, k + 1 + name) = "*" THEN 1 ELSE 0
         IN  IF s[k + 1] = "\\" /\ name >= 1
             THEN <<" ">> \o BlankCommands(s, k + 1 + name + star)
             ELSE <<s[k + 1]>> \o BlankCommands(s, k + 1)

\* The units kept by replace(/[^\p{L}\p{N}\s\-_]/gu, ' '); the replacements of
\* '$' runs and of brackets before it blank units this one blanks as well.
KeptUnits == AsciiLetters \cup WhitespaceUnits \cup {"-", "_"}

RECURSIVE CollapseBlanks(_, _)
\* replace(/\s+/g, ' ') of the units blanked by the character classes; prev
\* tells whether the last unit written was a blank.
CollapseBlanks(s, prev) ==
    IF s = <<>> THEN <<>>
    ELSE LET blank == Head(s) \notin KeptUnits \/ Head(s) \in WhitespaceUnits
         IN  IF blank
             THEN (IF prev THEN <<>> ELSE <<" ">>) \o CollapseBlanks(Tail(s), TRUE)
             ELSE <<Head(s)>> \o CollapseBlanks(Tail(s), FALSE)

\* String.prototype.trim of a text whose blanks are single spaces.
Trim(s) ==
    LET a == IF s # <<>> /\ Head(s) = " " THEN Tail(s) ELSE s
    IN  IF a # <<>> /\ a[Len(a)] = " " THEN SubSeq(a, 1, Len(a) - 1) ELSE a

\* normalizeMathComparableText
normalizeMathComparableText(value) ==
    Trim(CollapseBlanks(BlankCommands(UnwrapCommands(value), 0), FALSE))

\* getFileMatchNames: the basename, then the non-empty aliases.
getFileMatchNames(f) ==
    <<Basename(f)>> \o
    (IF settings.includeAliases
     THEN LET NonEmpty(a) == Len(a) > 0 IN SelectSeq(FrontmatterAliases(f), NonEmpty)
     ELSE <<>>)

\* isLikelyMathStyledName
isLikelyMathStyledName(name) == SeqToSet(name) \cap {"\\", "$", "{", "}"} # {}

\* buildMathContainmentCandidates: the variants of each indexed note but the
\* source itself.
CandidateFiles ==
    {f \in setIndexedFilePaths : ~(settings.excludeLinksToOwnNote /\ f = sourceFile)}

\* The names the notes of the corpus can be matched under, and what
\* normalizeMathComparableText makes of each.
CorpusNames ==
    UNION {{Basename(f)} \cup SeqToSet(FrontmatterAliases(f)) : f \in Files}

NormalizedName == [name \in CorpusNames |-> normalizeMathComparableText(name)]

Variants(f) ==
    {NormalizedName[getFileMatchNames(f)[k]] :
        k \in 1..Len(getFileMatchNames(f))} \ {<<>>}

buildMathContainmentCandidates == {f \in CandidateFiles : Variants(f) # {}}

\* String.prototype.includes
Includes(s, sub) == \E k \in 0..(Len(s) - Len(sub)) : Slice(s, k, k + Len(sub)) = sub

\* Shortest variant and text for which containment counts.
MinContainmentLength == 4

\* findContainmentFilesForMathText
findContainmentFilesForMathText(txt, candidates) ==
    LET normalizedText == normalizeMathComparableText(txt)
        Hit(f, variant) ==
            LET exactMatch == variant = normalizedText
                allowContainment == Len(variant) >= MinContainmentLength
                                    /\ Len(normalizedText) >= MinContainmentLength
                containmentMatch == allowContainment
                                    /\ (Includes(variant, normalizedText)
                                        \/ Includes(normalizedText, variant))
            IN  /\ exactMatch \/ containmentMatch
                /\ mapFilePathToExactMatchOnly(f) => exactMatch
    IN  IF normalizedText = <<>> THEN {}
        ELSE {f \in candidates : \E variant \in Variants(f) : Hit(f, variant)}

\* The score of choosePreferredMathTarget.
ScoreBasenameEqual == 120
ScoreNormalizedEqual == 80
ScoreAliasEqual == 40
ScorePlainName == 10
ScoreMaxLengthPenalty == 20
ScoreLengthDivisor == 8

scoreFile(f, matchedText) ==
    LET normalizedText == normalizeMathComparableText(matchedText)
        normalizedBasename == NormalizedName[Basename(f)]
        aliases == Tail(getFileMatchNames(f))
    IN  (IF Basename(f) = matchedText THEN ScoreBasenameEqual ELSE 0)
        + (IF normalizedBasename # <<>> /\ normalizedBasename = normalizedText
           THEN ScoreNormalizedEqual ELSE 0)
        + (IF \E k \in 1..Len(aliases) : aliases[k] = matchedText
           THEN ScoreAliasEqual ELSE 0)
        + (IF ~isLikelyMathStyledName(Basename(f)) THEN ScorePlainName ELSE 0)
        - Min(ScoreMaxLengthPenalty, Len(Basename(f)) \div ScoreLengthDivisor)

\* a.path.localeCompare(b.path) < 0
PathBefore(f, g) ==
    LET Rank(x) == CASE x = "A" -> 1 [] x = "B" -> 2 [] x = "C" -> 3 [] OTHER -> 4
    IN  Rank(f) < Rank(g)

\* choosePreferredMathTarget: the best score, the smaller path on a tie.
choosePreferredMathTarget(files, matchedText) ==
    IF files = {} THEN NoFile
    ELSE CHOOSE f \in files : \A g \in files \ {f} :
            \/ scoreFile(f, matchedText) > scoreFile(g, matchedText)
            \/ scoreFile(f, matchedText) = scoreFile(g, matchedText) /\ PathBefore(f, g)

MathMatch(from, to, target) == [from |-> from, to |-> to, target |-> target]

\* The files the target of a trie match is chosen from.
MathMergedCandidates(filteredFiles, containmentFiles) == filteredFiles \cup containmentFiles

\* The loop body for one node.
MathMatchOf(node, isWordBoundary) ==
    LET filteredFiles == filterFilesByMatchBoundaries(
                             node.files, node.startsAtWordBoundary, isWordBoundary)
        txt == Slice(text, node.start, node.end)
        containmentFiles == findContainmentFilesForMathText(txt, buildMathContainmentCandidates)
        target == choosePreferredMathTarget(
                      MathMergedCandidates(filteredFiles, containmentFiles), txt)
    IN  IF SkipNode(node, isWordBoundary) THEN <<>>
        ELSE IF BadOffsets(node.start, node.end, Len(text)) THEN <<>>
        ELSE IF node.start > 0 /\ UnitAt(text, node.start - 1) = "\\" THEN <<>>
        ELSE IF rangeIntersectsAny(node.start, node.end, excludedIntervals) THEN <<>>
        ELSE IF target = NoFile THEN <<>>
        ELSE <<MathMatch(node.start, node.end, target)>>

RECURSIVE MathForEach(_, _)
\* currentNodes.forEach: the matches pushed for the reported nodes, in order.
MathForEach(nodes, isWordBoundary) ==
    IF nodes = <<>> THEN <<>>
    ELSE MathMatchOf(Head(nodes), isWordBoundary)
         \o MathForEach(Tail(nodes), isWordBoundary)

\* The matches pushed at loop index k.
MathCollect(k, isWordBoundary) ==
    IF CollectAt(isWordBoundary) THEN MathForEach(NodesAt(k), isWordBoundary) ELSE <<>>

RECURSIVE SetToSeq(_)
\* The elements of a set of match records, as a sequence in offset order.
SetToSeq(set) ==
    IF set = {} THEN <<>>
    ELSE LET m == CHOOSE x \in set : \A y \in set :
                     \/ x.from < y.from
                     \/ x.from = y.from /\ PathBefore(x.target, y.target)
                     \/ x = y
         IN  <<m>> \o SetToSeq(set \ {m})

\* Shortest LaTeX-styled name searched for literally.
MinLiteralLength == 3

\* collectLiteralLatexMathMatches: every occurrence of a LaTeX-styled name.
collectLiteralLatexMathMatches(s, excluded) ==
    SetToSeq({MathMatch(idx, idx + Len(getFileMatchNames(f)[n]), f) :
        <<f, n, idx>> \in {x \in CandidateFiles \X (1..2) \X (0..Len(s)) :
            /\ x[2] <= Len(getFileMatchNames(x[1]))
            /\ LET name == getFileMatchNames(x[1])[x[2]]
               IN  /\ isLikelyMathStyledName(name)
                   /\ Len(name) >= MinLiteralLength
                   /\ x[3] + Len(name) <= Len(s)
                   /\ Slice(s, x[3], x[3] + Len(name)) = name
                   /\ ~rangeIntersectsAny(x[3], x[3] + Len(name), excluded)}})

\* /[\p{L}\p{N}][\p{L}\p{N}\-_]{1,}/u at offset p.
TokenAt(s, p) ==
    LET rest == RunLength(s, p + 1, AsciiLetters \cup {"-", "_"})
    IN  IF UnitAt(s, p) \in AsciiLetters /\ rest >= 1 THEN p + 1 + rest ELSE NoMatch

RECURSIVE TokenIntervals(_, _)
\* The tokens the exec loop of the fallback finds from offset k.
TokenIntervals(s, k) ==
    IF k > Len(s) THEN {}
    ELSE IF TokenAt(s, k) = NoMatch THEN TokenIntervals(s, k + 1)
    ELSE {<<k, TokenAt(s, k)>>} \cup TokenIntervals(s, TokenAt(s, k))

\* collectContainmentFallbackMathMatches
collectContainmentFallbackMathMatches(s, excluded, candidates) ==
    LET Target(r) == choosePreferredMathTarget(
                         findContainmentFilesForMathText(Slice(s, r[1], r[2]), candidates),
                         Slice(s, r[1], r[2]))
    IN  SetToSeq({MathMatch(r[1], r[2], Target(r)) :
            r \in {t \in TokenIntervals(s, 0) :
                      /\ ~rangeIntersectsAny(t[1], t[2], excluded)
                      /\ ~(t[1] > 0 /\ UnitAt(s, t[1] - 1) = "\\")
                      /\ Target(t) # NoFile}})

RECURSIVE MathNonOverlapping(_, _)
\* The final loop: keep a match unless it starts before the end of the last
\* one kept.
MathNonOverlapping(ms, lastEnd) ==
    IF ms = <<>> THEN <<>>
    ELSE IF Head(ms).from < lastEnd
         THEN MathNonOverlapping(Tail(ms), lastEnd)
         ELSE <<Head(ms)>> \o MathNonOverlapping(Tail(ms), Head(ms).to)

\* A faulty resolution: the overlap loop run over the matches in the order the
\* scan pushed them.
MathResolveUnsorted(out, s, excluded) ==
    LET withLiteral == out \o collectLiteralLatexMathMatches(s, excluded)
        all == IF withLiteral = <<>>
               THEN collectContainmentFallbackMathMatches(
                        s, excluded, buildMathContainmentCandidates)
               ELSE withLiteral
    IN  MathNonOverlapping(all, -1)

\* What follows the loop: the literal pass, the fallback, the sort (from
\* ascending, longer first, stable) and the overlap loop.
MathResolve(out, s, excluded) ==
    LET withLiteral == out \o collectLiteralLatexMathMatches(s, excluded)
        all == IF withLiteral = <<>>
               THEN collectContainmentFallbackMathMatches(
                        s, excluded, buildMathContainmentCandidates)
               ELSE withLiteral
    IN  MathNonOverlapping(SortMatches(all), -1)

StartMath ==
    /\ pc = "idle"
    /\ consumer' = "math"
    /\ pc' = "scan"
    /\ currentNodes' = ResetNodes
    /\ lastCharBoundary' = ResetLastCharBoundary
    /\ matches' = <<>>
    /\ explicitlyLinkedFiles' = {}
    /\ excludedIntervals' = collectMathExcludedRanges(text)
    /\ i' = 0
    /\ pushedChars' = <<>>
    /\ queriedIndices' = <<>>
    /\ UNCHANGED <<settings, text, sourceFile, fileCache, linkedFiles, result>>
    /\ UNCHANGED <<hostVars, locVars>>

MathStep ==
    /\ pc = "scan" /\ consumer = "math"
    /\ i <= Len(text)
    /\ LET char == CharAt(text, i)
           isWordBoundary == checkWordBoundary(char)
       IN  /\ matches' = matches \o MathCollect(i, isWordBoundary)
           /\ currentNodes' = pushChar(currentNodes, lastCharBoundary, char)
           /\ lastCharBoundary' = isWordBoundary
           /\ i' = i + Len(char)
           /\ queriedIndices' = IF CollectAt(isWordBoundary)
                                 THEN Append(queriedIndices, i)
                                 ELSE queriedIndices
           /\ pushedChars' = Append(pushedChars, char)
    /\ UNCHANGED <<settings, text, sourceFile, fileCache, consumer, pc,
                   explicitlyLinkedFiles, excludedIntervals, linkedFiles, result>>
    /\ UNCHANGED <<hostVars, locVars>>

MathFinish ==
    /\ pc = "scan" /\ consumer = "math"
    /\ i > Len(text)
    /\ result' = MathResolve(matches, text, excludedIntervals)
    /\ pc' = "done"
    /\ UNCHANGED <<settings, text, sourceFile, fileCache, consumer, i, currentNodes,
                   lastCharBoundary, matches, explicitlyLinkedFiles,
                   excludedIntervals, linkedFiles>>
    /\ UNCHANGED <<pushedChars, queriedIndices, hostVars, locVars>>

---------------------------------------------------------------------------
(* The settings and the source metadata of a scan.                          *)

\* The bounds of the refresh interval, and the interval of a setting that is
\* no finite number (also the default of the setting), in milliseconds.
REFRESH_INTERVAL_MIN_MS == 500
REFRESH_INTERVAL_MAX_MS == 60000
REFRESH_INTERVAL_DEFAULT_MS == 6000

\* Number(settings.virtualLinkMetadataRefreshMs): a finite number, held in
\* tenths of a millisecond, or NaN or an infinity.
Finite(tenths) == [finite |-> TRUE, tenths |-> tenths]
NotFinite == [finite |-> FALSE, tenths |-> 0]

\* Math.round of a number held in tenths: the nearest integer, a half goes up.
MathRound(tenths) == (tenths + 5) \div 10

\* The settings of a scan: the given flags, the others at their defaults.
SettingsOf(any, beginning, ending, once, real, anti) ==
    [linkerActivated |-> TRUE,
     matchAnyPartsOfWords |-> any,
     matchBeginningOfWords |-> beginning,
     matchEndOfWords |-> ending,
     onlyLinkOnce |-> once,
     excludeLinksToRealLinkedFiles |-> real,
     antialiasesEnabled |-> anti,
     includeHeaders |-> TRUE,
     includeAliases |-> TRUE,
     excludeLinksToOwnNote |-> TRUE,
     includeVirtualLinksInGraph |-> TRUE,
     includeVirtualLinksInBacklinks |-> TRUE,
     virtualLinkMetadataRefreshMs |-> Finite(10 * REFRESH_INTERVAL_DEFAULT_MS)]

\* The host's metadata of a note: its links and its frontmatter block.
CacheOf(links, embeds) ==
    [links |-> links, embeds |-> embeds, frontmatterLinks |-> <<>>,
     frontmatterPosition |-> NoPosition]

---------------------------------------------------------------------------
(* The plugin around the scans: the bridge's refresh cycle, the read-mode   *)
(* render of a block, a math scan, the corpus events and the frontmatter    *)
(* backfill, as tasks of one JavaScript thread.                             *)

\* External events (corpus changes, 'resolved' events of the host) in a run.
MaxEvents == 2

\* Changes of the settings in a run.
MaxSettingsUpdates == 1

\* Changes of a property name in a run.
MaxRenames == 2

\* Blocks rendered in read mode in a run.
MaxRenders == 2

\* Math sources scanned in a run.
MaxMathScans == 1

\* vault.getMarkdownFiles(): the notes the bridge scans, in order, and their
\* texts.  Fewer than YIELD_EVERY_FILES, so computeVirtualLinks suspends in
\* cachedRead only.
VaultFiles == <<"S", "T">>

VaultText(file) == IF file = "S" THEN <<"a">> ELSE <<"a", "b">>

\* The text nodes of a rendered block, in the order onload visits them.
RenderNodes == <<<<"a">>, <<>>, <<"a">>>>

\* A math source.
MathSource == <<"a", "b">>

LinkPairs == {"S", "T"} \X Files

NoCounts == [pair \in LinkPairs |-> 0]

NoRefs == [source \in {"S", "T"} |-> <<>>]

\* The linker cache holds no tree.
Cleared == -1

\* The plugin right after onload: the bridge constructed, nothing applied, the
\* tree built from the corpus as it is.
PluginAtLoad ==
    [running |-> "none",                 \* the task that holds the thread
     disposed |-> FALSE,
     refreshRunning |-> FALSE,
     refreshQueued |-> FALSE,
     suppressResolvedEvent |-> FALSE,
     refreshStarts |-> 0,                \* refresh bodies started so far
     refreshTimer |-> FALSE,             \* a timer is pending
     timers |-> 0,                       \* the timers of the bridge the host
                                         \* holds
     refreshDelay |-> 0,                 \* the delay of the pending timer
     now |-> 0,                          \* Date.now()
     lastRefreshStartedAt |-> 0,
     refreshAt |-> 0,                    \* computeVirtualLinks awaits the read
                                         \* of this vault file (0: none)
     linkCounts |-> NoCounts,            \* locals of computeVirtualLinks
     refsBySource |-> NoRefs,
     appliedVirtualLinks |-> NoCounts,
     appliedVirtualRefsBySource |-> NoRefs,
     virtualBacklinksByTarget |-> NoRefs,
     resolvedLinks |-> NoCounts,         \* metadataCache.resolvedLinks
     resolvedSources |-> {},             \* the sources with an entry in it
     hostSources |-> {},                 \* the sources whose entry the host
                                         \* populated
     realLinks |-> NoCounts,             \* the counts of the links written in
                                         \* the notes
     links |-> NoRefs,                   \* the links arrays of the file caches
     corpusVersion |-> 0,                \* corpus changes so far
     clearedAt |-> 0,                    \* corpusVersion at the last clearCache
     notifiedAt |-> 0,                   \* corpusVersion at the last update()
     treeVersion |-> 0,                  \* corpusVersion the tree was built from
     exactMatchBackfillRunning |-> FALSE,
     backfillAt |-> "none",              \* the await the backfill is suspended in
     exactMatchPropertyBackfillDone |-> FALSE,
     antialiasPropertyBackfillDone |-> FALSE,
     propertyNames |-> <<0, 0>>,         \* how often propertyNameExactMatchOnly
                                         \* and propertyNameAntialiases changed
     backfillNames |-> <<0, 0>>,         \* the names the last pass started with
     exactMatchBackfillTimer |-> FALSE,
     renameSaveAt |-> FALSE,             \* updateSettings awaits saveData
                                         \* after a change of a name
     nodeIndex |-> 0,                    \* onload: the text node being linked
     linkedAtStart |-> {},               \* onload: linkedFiles before that node
     settingsSaveAt |-> FALSE,           \* updateSettings awaits saveData
     settingsNotified |-> TRUE,          \* update() ran after the last change
                                         \* of the settings
     settingsUpdates |-> 0,
     events |-> 0,
     renders |-> 0,
     mathScans |-> 0]

\* A faulty thread: a task may start while synchronous code is running, as if
\* the scan loops yielded between two characters.
EventLoopAlways == TRUE

\* The event loop may start a task: no synchronous code is running.  The
\* scans have no await between their reset and their last pushChar.
EventLoopIdle == plugin.running = "none"

\* LinkerCache.clearCache
clearCache(p) == [p EXCEPT !.clearedAt = p.corpusVersion, !.treeVersion = Cleared]

\* PrefixTree.updateTree, and the rebuild of a cleared tree by the next scan.
updateTree(p) ==
    IF p.treeVersion = Cleared THEN [p EXCEPT !.treeVersion = p.corpusVersion] ELSE p

\* getRefreshIntervalMs
getRefreshIntervalMs(s) ==
    LET raw == s.virtualLinkMetadataRefreshMs
    IN  IF ~raw.finite THEN REFRESH_INTERVAL_DEFAULT_MS
        ELSE MathRound(Min(10 * REFRESH_INTERVAL_MAX_MS,
                           Max(10 * REFRESH_INTERVAL_MIN_MS, raw.tenths)))

\* The delay scheduleRefresh hands to setTimeout.
delayMs(p) ==
    LET intervalMs == getRefreshIntervalMs(settings)
        elapsedSinceLastStart == p.now - p.lastRefreshStartedAt
    IN  Max(intervalMs, intervalMs - elapsedSinceLastStart)

\* window.clearTimeout on the handle the bridge holds.
clearTimeout(p) ==
    IF p.refreshTimer
    THEN [p EXCEPT !.refreshTimer = FALSE, !.timers = @ - 1, !.refreshDelay = 0]
    ELSE p

\* window.setTimeout: one more timer, the bridge holds its handle.
setTimeout(p, delay) ==
    [p EXCEPT !.refreshTimer = TRUE, !.timers = @ + 1, !.refreshDelay = delay]

\* A faulty scheduleRefresh: the pending timer is not cancelled.
scheduleRefreshNoCancel(p) ==
    IF p.disposed THEN p
    ELSE IF ~settings.includeVirtualLinksInGraph /\ ~settings.includeVirtualLinksInBacklinks
    THEN p
    ELSE setTimeout(p, delayMs(p))

\* scheduleRefresh: arms the timer, replacing a pending one.
scheduleRefresh(p) ==
    IF p.disposed THEN p
    ELSE IF ~settings.includeVirtualLinksInGraph /\ ~settings.includeVirtualLinksInBacklinks
    THEN p
    ELSE setTimeout(clearTimeout(p), delayMs(p))

\* handleMetadataResolvedEvent, the listener of 'resolved'.
handleMetadataResolvedEvent(p) ==
    IF p.disposed \/ p.suppressResolvedEvent THEN p ELSE scheduleRefresh(p)

\* A faulty triggerResolved: the event is triggered with the flag down.
triggerResolvedUnsuppressed(p) == handleMetadataResolvedEvent(p)

\* triggerResolved: 'resolved' is triggered, and its listeners run, between
\* the raising and the lowering of suppressResolvedEvent.
triggerResolved(p) ==
    [handleMetadataResolvedEvent([p EXCEPT !.suppressResolvedEvent = TRUE])
        EXCEPT !.suppressResolvedEvent = FALSE]

\* updateManager.update(): runs the callback onload registered.
update(p) == scheduleRefresh(clearCache([p EXCEPT !.notifiedAt = p.corpusVersion]))

\* unapplyVirtualData: the applied counts subtracted, an entry that does not
\* stay positive deleted; the virtual refs filtered out of the links of the
\* sources recorded as applied.
unapplyVirtualData(p) ==
    [p EXCEPT
        !.resolvedLinks = [pair \in LinkPairs |->
            IF p.appliedVirtualLinks[pair] = 0 \/ pair[1] \notin p.resolvedSources
            THEN p.resolvedLinks[pair]
            ELSE Max(0, p.resolvedLinks[pair] - p.appliedVirtualLinks[pair])],
        !.resolvedSources = {source \in p.resolvedSources :
            \/ \A target \in Files : p.appliedVirtualLinks[<<source, target>>] = 0
            \/ \E target \in Files :
                  p.resolvedLinks[<<source, target>>]
                     > p.appliedVirtualLinks[<<source, target>>]},
        !.appliedVirtualLinks = NoCounts,
        !.links = [source \in {"S", "T"} |->
            IF p.appliedVirtualRefsBySource[source] # <<>> THEN <<>> ELSE p.links[source]],
        !.appliedVirtualRefsBySource = NoRefs,
        !.virtualBacklinksByTarget = NoRefs]

\* applyVirtualLinkCounts
applyVirtualLinkCounts(p, virtualLinks) ==
    [p EXCEPT
        !.resolvedLinks = [pair \in LinkPairs |-> p.resolvedLinks[pair] + virtualLinks[pair]],
        !.resolvedSources = p.resolvedSources \cup
            {source \in {"S", "T"} :
                \E target \in Files : virtualLinks[<<source, target>>] > 0},
        !.appliedVirtualLinks = virtualLinks]

\* applyVirtualCacheRefs: the refs whose key the links do not hold yet.
applyVirtualCacheRefs(p, refs) ==
    LET ToAdd(source) ==
            SelectSeq(refs[source], LAMBDA ref : ref \notin SeqToSet(p.links[source]))
    IN  [p EXCEPT
            !.links = [source \in {"S", "T"} |-> p.links[source] \o ToAdd(source)],
            !.appliedVirtualRefsBySource = [source \in {"S", "T"} |-> ToAdd(source)]]

\* A faulty end of refreshNow: the finally block resets refreshRunning and
\* forgets the queued request.
endRefreshNoRequeue(p, computed) ==
    LET counted == IF computed /\ settings.includeVirtualLinksInGraph
                   THEN applyVirtualLinkCounts(p, p.linkCounts)
                   ELSE p
        applied == IF computed /\ settings.includeVirtualLinksInBacklinks
                   THEN applyVirtualCacheRefs(counted, p.refsBySource)
                   ELSE counted
        resolved == IF computed THEN triggerResolved(applied) ELSE applied
    IN  [resolved EXCEPT
            !.virtualBacklinksByTarget = IF computed THEN p.refsBySource ELSE @,
            !.refreshAt = 0,
            !.refreshRunning = FALSE,
            !.refreshQueued = FALSE]

\* The end of refreshNow: what follows computeVirtualLinks when computed is
\* TRUE, then the finally block.
endRefresh(p, computed) ==
    LET counted == IF computed /\ settings.includeVirtualLinksInGraph
                   THEN applyVirtualLinkCounts(p, p.linkCounts)
                   ELSE p
        applied == IF computed /\ settings.includeVirtualLinksInBacklinks
                   THEN applyVirtualCacheRefs(counted, p.refsBySource)
                   ELSE counted
        resolved == IF computed THEN triggerResolved(applied) ELSE applied
        done == [resolved EXCEPT
                    !.virtualBacklinksByTarget =
                        IF computed THEN p.refsBySource ELSE @,
                    !.refreshAt = 0,
                    !.refreshRunning = FALSE]
    IN  IF done.refreshQueued /\ ~done.disposed
        THEN scheduleRefresh([done EXCEPT !.refreshQueued = FALSE])
        ELSE done

\* computeVirtualLinks from the k-th vault file on: the loop leaves when the
\* files are through or the bridge is disposed, else it awaits the read.
computeVirtualLinks(p, k) ==
    IF k > Len(VaultFiles) \/ p.disposed
    THEN endRefresh(p, TRUE)
    ELSE [p EXCEPT !.refreshAt = k]

\* refreshNow past its guards: the start is recorded, refreshRunning is set.
startRefresh(p) ==
    [p EXCEPT !.refreshRunning = TRUE, !.refreshStarts = @ + 1,
              !.lastRefreshStartedAt = p.now]

\* A faulty refreshNow: no look at refreshRunning, a second body starts while
\* the first is suspended.
refreshNowUnguarded(p) ==
    IF p.disposed THEN p
    ELSE IF \/ ~settings.linkerActivated
            \/ ~settings.includeVirtualLinksInGraph /\ ~settings.includeVirtualLinksInBacklinks
         THEN endRefresh(triggerResolved(unapplyVirtualData(startRefresh(p))), FALSE)
    ELSE computeVirtualLinks(
             [updateTree(unapplyVirtualData(startRefresh(p)))
                 EXCEPT !.linkCounts = NoCounts, !.refsBySource = NoRefs],
             1)

\* refreshNow up to its first await.
refreshNow(p) ==
    IF p.disposed THEN p
    ELSE IF p.refreshRunning THEN [p EXCEPT !.refreshQueued = TRUE]
    ELSE IF \/ ~settings.linkerActivated
            \/ ~settings.includeVirtualLinksInGraph /\ ~settings.includeVirtualLinksInBacklinks
         THEN endRefresh(triggerResolved(unapplyVirtualData(startRefresh(p))), FALSE)
    ELSE computeVirtualLinks(
             [updateTree(unapplyVirtualData(startRefresh(p)))
                 EXCEPT !.linkCounts = NoCounts, !.refsBySource = NoRefs],
             1)

RECURSIVE FilesToSeq(_)
\* match.files in path order.
FilesToSeq(files) ==
    IF files = {} THEN <<>>
    ELSE <<CHOOSE f \in files : \A g \in files \ {f} : PathBefore(f, g)>>
         \o FilesToSeq(files \ {CHOOSE f \in files : \A g \in files \ {f} : PathBefore(f, g)})

RECURSIVE RefsOfTargets(_, _, _, _)
\* createVirtualCacheRef for each target of one match: the key and the position.
RefsOfTargets(source, s, match, targets) ==
    IF targets = <<>> THEN <<>>
    ELSE <<[source |-> source, target |-> Head(targets),
            from |-> match.from, to |-> match.to,
            start |-> offsetToLoc(buildLineOffsets(s), match.from),
            end |-> offsetToLoc(buildLineOffsets(s), match.to)]>>
         \o RefsOfTargets(source, s, match, Tail(targets))

RECURSIVE RefsOfMatches(_, _, _)
\* The refs computeVirtualLinks pushes for the matches of one source.
RefsOfMatches(source, s, ms) ==
    IF ms = <<>> THEN <<>>
    ELSE RefsOfTargets(source, s, Head(ms), FilesToSeq(Head(ms).files))
         \o RefsOfMatches(source, s, Tail(ms))

\* One completed scan: the consumer, the text, the files linked before it, the
\* resolved list, and how many scans of the same input came before.
Scanned(linked) ==
    [consumer |-> consumer, text |-> text, linked |-> linked, result |-> result,
     n |-> 1 + Cardinality({h \in history :
                h.consumer = consumer /\ h.text = text /\ h.linked = linked})]

\* The scan variables a task of the plugin does not assign.
ScanLocals == <<settings, consumer, i, currentNodes, lastCharBoundary, matches,
                explicitlyLinkedFiles, excludedIntervals, result, pushedChars,
                queriedIndices>>

\* metadataCache.getFileCache: the links written in the note, of which the
\* model has the link to A.
FileCacheOf(p, file) ==
    IF p.realLinks[<<file, "A">>] > 0
    THEN CacheOf(<<<<"a">>>>, <<>>)
    ELSE CacheOf(<<>>, <<>>)

\* The host resolves the links of a changed note anew: the note's entry of
\* resolvedLinks is replaced by the counts of the links written in it, with
\* or without a link to A, and 'resolved' fires.
HostResolves ==
    /\ EventLoopIdle
    /\ ~plugin.disposed
    /\ plugin.events < MaxEvents
    /\ \E source \in {"S", "T"}, n \in 0..1 :
          LET real == [pair \in LinkPairs |->
                          IF pair[1] # source THEN plugin.realLinks[pair]
                          ELSE IF pair[2] = "A" THEN n ELSE 0]
          IN  plugin' = handleMetadataResolvedEvent(
                  [plugin EXCEPT
                      !.events = @ + 1,
                      !.realLinks = real,
                      !.resolvedLinks = [pair \in LinkPairs |->
                          IF pair[1] = source THEN real[pair] ELSE @[pair]],
                      !.resolvedSources = @ \cup {source},
                      !.hostSources = @ \cup {source}])
    /\ UNCHANGED <<scanVars, history, locVars>>

\* The host fires 'resolved': handleMetadataResolvedEvent.
MetadataResolved ==
    /\ EventLoopIdle
    /\ ~plugin.disposed
    /\ plugin.events < MaxEvents
    /\ plugin' = handleMetadataResolvedEvent([plugin EXCEPT !.events = @ + 1])
    /\ UNCHANGED <<scanVars, history, locVars>>

\* A markdown file is created, deleted or renamed.
VaultChanged ==
    /\ EventLoopIdle
    /\ ~plugin.disposed
    /\ plugin.events < MaxEvents
    /\ plugin' = update(clearCache([plugin EXCEPT !.events = @ + 1,
                                                  !.corpusVersion = @ + 1]))
    /\ UNCHANGED <<scanVars, history, locVars>>

\* The metadata of a file changes: the handler returns at once while the
\* backfill runs.
MetadataChanged ==
    /\ EventLoopIdle
    /\ ~plugin.disposed
    /\ plugin.events < MaxEvents
    /\ LET p == [plugin EXCEPT !.events = @ + 1, !.corpusVersion = @ + 1]
       IN  plugin' = IF p.exactMatchBackfillRunning THEN p ELSE update(clearCache(p))
    /\ UNCHANGED <<scanVars, history, locVars>>

\* The host runs the callback of a timer that is due: the timer is gone, the
\* callback drops the handle and calls refreshNow.
TimerFires ==
    /\ EventLoopIdle
    /\ plugin.timers > 0
    /\ plugin' = refreshNow([plugin EXCEPT !.timers = @ - 1, !.refreshTimer = FALSE,
                                            !.refreshDelay = 0])
    /\ UNCHANGED <<scanVars, history, locVars>>

\* cachedRead resolves: computeVirtualLinks goes on with the text of the file
\* and calls collectMatchesFromText.
ReadReturns ==
    /\ EventLoopIdle
    /\ plugin.refreshAt > 0
    /\ plugin' = [updateTree(plugin) EXCEPT !.running = "refresh"]
    /\ text' = VaultText(VaultFiles[plugin.refreshAt])
    /\ sourceFile' = VaultFiles[plugin.refreshAt]
    /\ fileCache' = FileCacheOf(plugin, VaultFiles[plugin.refreshAt])
    /\ pc' = "idle"
    /\ UNCHANGED <<ScanLocals, linkedFiles, history, locVars>>

\* cachedRead rejects: the exception leaves computeVirtualLinks, refreshNow
\* logs it and runs its finally block.
ReadFails ==
    /\ EventLoopIdle
    /\ plugin.refreshAt > 0
    /\ plugin' = endRefresh(plugin, FALSE)
    /\ UNCHANGED <<scanVars, history, locVars>>

\* collectMatchesFromText has returned: the matches are accumulated and the
\* loop goes to the next file.
RefreshAccumulate ==
    /\ plugin.running = "refresh"
    /\ pc = "done"
    /\ LET refs == RefsOfMatches(sourceFile, text, result)
           Count(pair) == IF pair[1] = sourceFile
                          THEN Len(SelectSeq(refs, LAMBDA ref : ref.target = pair[2]))
                          ELSE plugin.linkCounts[pair]
       IN  plugin' = computeVirtualLinks(
                         [plugin EXCEPT !.running = "none",
                                        !.refsBySource[sourceFile] = refs,
                                        !.linkCounts = [pair \in LinkPairs |-> Count(pair)]],
                         plugin.refreshAt + 1)
    /\ history' = history \cup {Scanned({})}
    /\ pc' = "idle"
    /\ UNCHANGED <<ScanLocals, text, sourceFile, fileCache, linkedFiles, locVars>>

\* The plugin is unloaded: destroy.
Destroy ==
    /\ EventLoopIdle
    /\ ~plugin.disposed
    /\ plugin' = triggerResolved(
                      unapplyVirtualData(clearTimeout([plugin EXCEPT !.disposed = TRUE])))
    /\ UNCHANGED <<scanVars, history, locVars>>

\* GlossaryLinker.onload starts on a rendered block: fresh sets, first node.
OnloadBegin ==
    /\ EventLoopIdle
    /\ settings.linkerActivated
    /\ plugin.renders < MaxRenders
    /\ plugin' = [updateTree(plugin) EXCEPT !.running = "onload", !.renders = @ + 1,
                                            !.nodeIndex = 1, !.linkedAtStart = {}]
    /\ linkedFiles' = {}
    /\ text' = RenderNodes[1]
    /\ sourceFile' = NoteS
    /\ fileCache' = CacheOf(<<>>, <<>>)
    /\ pc' = "idle"
    /\ UNCHANGED <<ScanLocals, history, locVars>>

\* onload is through with a text node, linked or skipped as empty, and goes to
\* the next one or returns.
OnloadNext ==
    /\ plugin.running = "onload"
    /\ pc = "done" \/ (pc = "idle" /\ text = <<>>)
    /\ history' = IF pc = "done" THEN history \cup {Scanned(plugin.linkedAtStart)}
                  ELSE history
    /\ pc' = "idle"
    /\ IF plugin.nodeIndex < Len(RenderNodes)
       THEN /\ plugin' = [plugin EXCEPT !.nodeIndex = @ + 1, !.linkedAtStart = linkedFiles]
            /\ text' = RenderNodes[plugin.nodeIndex + 1]
       ELSE /\ plugin' = [plugin EXCEPT !.nodeIndex = 0, !.running = "none"]
            /\ text' = text
    /\ UNCHANGED <<ScanLocals, sourceFile, fileCache, linkedFiles, locVars>>

\* A math source is rendered: collectGlossaryMathMatches is called.
MathBegin ==
    /\ EventLoopIdle
    /\ plugin.mathScans < MaxMathScans
    /\ plugin' = [updateTree(plugin) EXCEPT !.running = "math", !.mathScans = @ + 1]
    /\ text' = MathSource
    /\ sourceFile' = NoteS
    /\ fileCache' = CacheOf(<<>>, <<>>)
    /\ pc' = "idle"
    /\ UNCHANGED <<ScanLocals, linkedFiles, history, locVars>>

\* collectGlossaryMathMatches returns.
MathEnd ==
    /\ plugin.running = "math"
    /\ pc = "done"
    /\ plugin' = [plugin EXCEPT !.running = "none"]
    /\ history' = history \cup {Scanned({})}
    /\ pc' = "idle"
    /\ UNCHANGED <<ScanLocals, text, sourceFile, fileCache, linkedFiles, locVars>>

\* backfillExactMatchPropertyIfNeeded up to its first await: nothing to do
\* when both flags are set or a pass is running; else the pass starts with
\* the property names as they are and awaits the frontmatter write of the
\* first entry.
backfillExactMatchPropertyIfNeeded(p) ==
    IF \/ p.exactMatchPropertyBackfillDone /\ p.antialiasPropertyBackfillDone
       \/ p.exactMatchBackfillRunning
    THEN p
    ELSE [p EXCEPT !.exactMatchBackfillRunning = TRUE, !.backfillAt = "write",
                   !.backfillNames = p.propertyNames]

\* The layout is ready: backfillExactMatchPropertyIfNeeded starts and awaits
\* the frontmatter write of the first entry.
BackfillBegin ==
    /\ EventLoopIdle
    /\ plugin.backfillAt = "none"
    /\ plugin' = backfillExactMatchPropertyIfNeeded(plugin)
    /\ UNCHANGED <<scanVars, history, locVars>>

\* The write is through: the loop ends, the done flags are set, saveData is
\* awaited.
BackfillWritten ==
    /\ EventLoopIdle
    /\ plugin.backfillAt = "write"
    /\ plugin' = [plugin EXCEPT !.backfillAt = "save",
                                !.exactMatchPropertyBackfillDone = TRUE,
                                !.antialiasPropertyBackfillDone = TRUE]
    /\ UNCHANGED <<scanVars, history, locVars>>

\* saveData settles: on success the listeners are updated; either way the
\* finally block ends the pass.
BackfillSaved ==
    /\ EventLoopIdle
    /\ plugin.backfillAt = "save"
    /\ \E saved \in BOOLEAN :
          plugin' = [(IF saved THEN update(plugin) ELSE plugin)
                        EXCEPT !.exactMatchBackfillRunning = FALSE, !.backfillAt = "done"]
    /\ UNCHANGED <<scanVars, history, locVars>>

\* The settings a user can switch to: both integrations off, the linker
\* deactivated, both of them.
SettingsChoices ==
    {<<TRUE, FALSE, FALSE>>, <<FALSE, TRUE, TRUE>>, <<FALSE, FALSE, FALSE>>}

\* updateSettings: Object.assign on the settings object the bridge shares, then
\* saveData is awaited.
UpdateSettings ==
    /\ EventLoopIdle
    /\ ~plugin.disposed
    /\ ~plugin.settingsSaveAt
    /\ plugin.settingsUpdates < MaxSettingsUpdates
    /\ \E choice \in SettingsChoices :
          settings' = [settings EXCEPT !.linkerActivated = choice[1],
                                       !.includeVirtualLinksInGraph = choice[2],
                                       !.includeVirtualLinksInBacklinks = choice[3]]
    /\ plugin' = [plugin EXCEPT !.settingsSaveAt = TRUE, !.settingsNotified = FALSE,
                                !.settingsUpdates = @ + 1]
    /\ UNCHANGED <<text, sourceFile, fileCache, consumer, pc, i, currentNodes,
                   lastCharBoundary, matches, explicitlyLinkedFiles,
                   excludedIntervals, linkedFiles, result, pushedChars,
                   queriedIndices>>
    /\ UNCHANGED <<history, locVars>>

\* saveData has resolved: updateSettings notifies the listeners with
\* updateManager.update().
SettingsSaved ==
    /\ EventLoopIdle
    /\ plugin.settingsSaveAt
    /\ plugin' = update([plugin EXCEPT !.settingsSaveAt = FALSE,
                                       !.settingsNotified = TRUE])
    /\ UNCHANGED <<scanVars, history, locVars>>

\* updateSettings with a new propertyNameExactMatchOnly, a new
\* propertyNameAntialiases or both: the flag of each changed name is reset,
\* saveData is awaited.
RenameProperty ==
    /\ EventLoopIdle
    /\ ~plugin.renameSaveAt
    /\ plugin.propertyNames[1] + plugin.propertyNames[2] < MaxRenames
    /\ \E exact \in BOOLEAN, antialias \in BOOLEAN :
          /\ exact \/ antialias
          /\ plugin' = [plugin EXCEPT
                 !.propertyNames = <<@[1] + (IF exact THEN 1 ELSE 0),
                                     @[2] + (IF antialias THEN 1 ELSE 0)>>,
                 !.exactMatchPropertyBackfillDone = IF exact THEN FALSE ELSE @,
                 !.antialiasPropertyBackfillDone = IF antialias THEN FALSE ELSE @,
                 !.renameSaveAt = TRUE]
    /\ UNCHANGED <<scanVars, history, locVars>>

\* saveData has resolved: updateSettings notifies the listeners and calls
\* scheduleExactMatchBackfill, which replaces a pending timer.
RenameSaved ==
    /\ EventLoopIdle
    /\ plugin.renameSaveAt
    /\ plugin' = [update(plugin) EXCEPT !.renameSaveAt = FALSE,
                                        !.exactMatchBackfillTimer = TRUE]
    /\ UNCHANGED <<scanVars, history, locVars>>

\* The backfill timer fires.
BackfillTimerFires ==
    /\ EventLoopIdle
    /\ plugin.exactMatchBackfillTimer
    /\ plugin' = backfillExactMatchPropertyIfNeeded(
                      [plugin EXCEPT !.exactMatchBackfillTimer = FALSE])
    /\ UNCHANGED <<scanVars, history, locVars>>

\* A scan on its own: nothing of the plugin moves, no position is converted.
InitHostIdle ==
    /\ plugin = PluginAtLoad
    /\ history = {}

NoQuery == [kind |-> "none"]

InitLocIdle ==
    /\ query = NoQuery
    /\ answer = NoQuery

\* A call of offsetToLoc over the line table of the text.
ConvertOffset ==
    /\ \E rawOffset \in (-2..(Len(text) + 2)) \cup {OffsetSlack + Len(text) + 2} :
          /\ query' = [kind |-> "offsetToLoc", rawOffset |-> rawOffset]
          /\ answer' = offsetToLoc(buildLineOffsets(text), rawOffset)
    /\ UNCHANGED <<scanVars, hostVars>>

\* A call of locToOffset over the line table of the text.
ConvertLoc ==
    /\ \E line \in -1..(MaxLen + 1), col \in -1..(MaxLen + 1) :
          /\ query' = [kind |-> "locToOffset", line |-> line, col |-> col]
          /\ answer' = [offset |-> locToOffset(buildLineOffsets(text), line, col)]
    /\ UNCHANGED <<scanVars, hostVars>>

---------------------------------------------------------------------------
(* The directory patterns of the file metadata (linkerInfo.ts).             *)

\* Directory names a user can type into the settings: two plain names and a
\* name that opens a group.
DirNames == {<<"g">>, <<"n">>, <<"(">>}

\* Longest directory list of the settings.
MaxDirs == 2

RECURSIVE DirListsOfLen(_)
DirListsOfLen(n) ==
    IF n = 0 THEN {<<>>}
    ELSE {Append(l, d) : l \in DirListsOfLen(n - 1), d \in DirNames}

DirLists == UNION {DirListsOfLen(n) : n \in 0..MaxDirs}

\* File paths as the sequence of their segments: x.md, g/x.md, n/g/x.md.
Paths == {<<<<"x">>>>, <<<<"g">>, <<"x">>>>, <<<<"n">>, <<"g">>, <<"x">>>>}

\* directories.join("|")
RECURSIVE JoinDirs(_)
JoinDirs(dirs) ==
    IF Len(dirs) = 0 THEN <<>>
    ELSE IF Len(dirs) = 1 THEN dirs[1]
    ELSE dirs[1] \o <<"|">> \o JoinDirs(Tail(dirs))

\* The pattern source `(^|\/)(${directories.join("|")})\/`; the escaped slash
\* is one unit.
DirPatternSource(dirs) ==
    <<"(", "^", "|", "\\/", ")", "(">> \o JoinDirs(dirs) \o <<")", "\\/">>

\* new RegExp(source) compiles iff every group and every character class of
\* the source is closed and no group is closed that was not opened.
RECURSIVE PatternScan(_, _, _, _)
PatternScan(source, k, depth, inClass) ==
    IF k > Len(source) THEN depth = 0 /\ ~inClass
    ELSE IF inClass THEN PatternScan(source, k + 1, depth, source[k] # "]")
    ELSE IF source[k] = "[" THEN PatternScan(source, k + 1, depth, TRUE)
    ELSE IF source[k] = "(" THEN PatternScan(source, k + 1, depth + 1, FALSE)
    ELSE IF source[k] = ")"
         THEN depth > 0 /\ PatternScan(source, k + 1, depth - 1, FALSE)
    ELSE PatternScan(source, k + 1, depth, FALSE)

RegExpCompiles(source) == PatternScan(source, 1, 0, FALSE)

\* pattern.test(path) for a pattern of plain names: some directory of the
\* path, a segment followed by a slash, is one of the names.
DirTest(dirs, path) ==
    \E k \in 1..(Len(path) - 1) : \E d \in 1..Len(dirs) : path[k] = dirs[d]

\* refreshSettings of a fetcher that tolerates a pattern it cannot compile.
refreshSettingsGuarded(linkerDirectories, excludedDirectories) ==
    [threw |-> FALSE,
     includeDirs |-> IF RegExpCompiles(DirPatternSource(linkerDirectories))
                     THEN linkerDirectories ELSE <<>>,
     excludeDirs |-> IF RegExpCompiles(DirPatternSource(excludedDirectories))
                     THEN excludedDirectories ELSE <<>>]

\* LinkerMetaInfoFetcher.refreshSettings: both patterns are compiled with new
\* RegExp, outside any try block; a SyntaxError leaves the call.
refreshSettings(linkerDirectories, excludedDirectories) ==
    IF /\ RegExpCompiles(DirPatternSource(linkerDirectories))
       /\ RegExpCompiles(DirPatternSource(excludedDirectories))
    THEN [threw |-> FALSE,
          includeDirs |-> linkerDirectories,
          excludeDirs |-> excludedDirectories]
    ELSE [threw |-> TRUE, includeDirs |-> <<>>, excludeDirs |-> <<>>]

\* The constructor of LinkerFileMetaInfo: the two directory tests of a path.
LinkerFileMetaInfo(fetcher, path) ==
    [isInIncludedDir |-> DirTest(fetcher.includeDirs, path),
     isInExcludedDir |-> DirTest(fetcher.excludeDirs, path)]

\* The settings are (re)read by the fetcher.
RefreshSettings ==
    /\ \E linkerDirectories \in DirLists, excludedDirectories \in DirLists :
          /\ query' = [kind |-> "refreshSettings",
                       linkerDirectories |-> linkerDirectories,
                       excludedDirectories |-> excludedDirectories]
          /\ answer' = refreshSettings(linkerDirectories, excludedDirectories)
    /\ UNCHANGED <<scanVars, hostVars>>

\* The metadata of a file is built from the fetcher's patterns.
GetMetaInfo ==
    /\ query.kind = "refreshSettings"
    /\ ~answer.threw
    /\ \E path \in Paths :
          /\ query' = [kind |-> "metaInfo",
                       linkerDirectories |-> query.linkerDirectories,
                       excludedDirectories |-> query.excludedDirectories,
                       path |-> path]
          /\ answer' = LinkerFileMetaInfo(answer, path)
    /\ UNCHANGED <<scanVars, hostVars>>

---------------------------------------------------------------------------
(* The backlinks of a target: the patched getBacklinksForFile.              *)

\* An entry of the result's data: absent, an array of refs, an object with a
\* links array, or a value of another shape.
Entry(shape, items) == [shape |-> shape, items |-> items]

NoEntry == Entry("none", <<>>)

\* A ref of a link written in a note: no __glossaryVirtualKey.
RealRef == [key |-> "none"]

\* The virtual refs of the bridge, by their __glossaryVirtualKey.
VirtualRef(key) == [key |-> key]

BacklinkSources == {"S", "T"}

\* virtualBacklinksByTarget[target]: the virtual refs of each source, none,
\* one or two of them.
VirtualRefLists ==
    {<<>>, <<VirtualRef("k1")>>, <<VirtualRef("k2")>>,
     <<VirtualRef("k1"), VirtualRef("k2")>>}

VirtualTables == [BacklinkSources -> VirtualRefLists]

\* The entries the host's getBacklinksForFile holds for a source.
HostEntries ==
    {NoEntry, Entry("array", <<RealRef>>), Entry("links", <<RealRef>>),
     Entry("other", <<>>)}

\* The results of the host: the entries by source and the count of the refs.
HostResults ==
    {[data |-> data,
      count |-> Len(data["S"].items) + Len(data["T"].items)] :
        data \in [BacklinkSources -> HostEntries]}

RECURSIVE PushMissing(_, _)
\* The loop over refs: a ref is pushed unless its key is among the keys of
\* the items, the ones pushed before it included.
PushMissing(items, refs) ==
    IF refs = <<>> THEN items
    ELSE IF \E k \in 1..Len(items) : items[k].key = Head(refs).key
         THEN PushMissing(items, Tail(refs))
         ELSE PushMissing(Append(items, Head(refs)), Tail(refs))

\* mergeBacklinkEntry: a new array for an absent entry; the refs pushed onto
\* the array, or the links array, of an entry that has one; any other entry
\* as it is.
mergeBacklinkEntry(existing, refs) ==
    IF existing.shape = "none" THEN Entry("array", refs)
    ELSE IF existing.shape \in {"array", "links"}
         THEN Entry(existing.shape, PushMissing(existing.items, refs))
    ELSE existing

countEntryItems(entry) ==
    IF entry.shape \in {"array", "links"} THEN Len(entry.items) ELSE 0

\* The entry `existing` names once mergeBacklinkEntry has returned: the merged
\* entry itself when the refs were pushed onto it.
AfterMerge(existing, merged) ==
    IF existing.shape = "none" THEN existing ELSE merged

\* The loop body for one source: what is added to `added`.  existingCount is
\* taken after the merge.
AddedFor(existing, refs) ==
    Max(0, countEntryItems(mergeBacklinkEntry(existing, refs))
              - countEntryItems(AfterMerge(existing, mergeBacklinkEntry(existing, refs))))

\* The refs the merge puts into the entry of one source.
PushedFor(existing, refs) ==
    Len(mergeBacklinkEntry(existing, refs).items) - Len(existing.items)

\* The sources the bridge has virtual refs of, for the target.
SourcesOf(virtualBySource) ==
    {source \in BacklinkSources : virtualBySource[source] # <<>>}

\* mergeVirtualBacklinksIntoResult for a target the bridge has virtual refs
\* for, on a result with an object as data.
mergeVirtualBacklinksIntoResult(virtualBySource, originalResult) ==
    IF ~settings.includeVirtualLinksInBacklinks \/ SourcesOf(virtualBySource) = {}
    THEN originalResult
    ELSE [data |-> [source \in BacklinkSources |->
                       IF source \in SourcesOf(virtualBySource)
                       THEN mergeBacklinkEntry(originalResult.data[source],
                                               virtualBySource[source])
                       ELSE originalResult.data[source]],
          count |-> originalResult.count
                    + AddedFor(originalResult.data["S"], virtualBySource["S"])
                    + AddedFor(originalResult.data["T"], virtualBySource["T"])]

\* The patched getBacklinksForFile is called: the host returns a result of
\* its own, or the object it returned the last time, and the bridge merges
\* the virtual refs of the target, as they are by now, into it.  A later call
\* with a new result of the host is the first call of another run.
GetBacklinksForFile ==
    /\ \E virtualBySource \in VirtualTables,
          original \in IF query.kind = "getBacklinksForFile"
                       THEN {answer.result}
                       ELSE HostResults :
          /\ query' = [kind |-> "getBacklinksForFile",
                       virtualBySource |-> virtualBySource,
                       original |-> original]
          /\ answer' = [result |->
                           mergeVirtualBacklinksIntoResult(virtualBySource, original)]
    /\ UNCHANGED <<scanVars, hostVars>>

---------------------------------------------------------------------------
(* Specifications.                                                          *)

\* Matching modes of the resolver runs: whole words, beginnings of words, any part.
ResolverModes == {<<FALSE, FALSE, FALSE>>, <<FALSE, TRUE, FALSE>>, <<TRUE, FALSE, FALSE>>}

\* Source metadata of the resolver runs, with the setting that reads it: no
\* links; a link to A; an embed of C and a dangling link.
ResolverSources ==
    {<<FALSE, CacheOf(<<>>, <<>>)>>,
     <<TRUE, CacheOf(<<<<"a">>>>, <<>>)>>,
     <<TRUE, CacheOf(<<<<"b", "b">>, <<>>>>, <<<<"b">>>>)>>}

InitIdle ==
    /\ consumer = "none"
    /\ pc = "idle"
    /\ i = 0
    /\ currentNodes = {}
    /\ lastCharBoundary = TRUE
    /\ matches = <<>>
    /\ explicitlyLinkedFiles = {}
    /\ excludedIntervals = {}
    /\ linkedFiles = {}
    /\ result = <<>>
    /\ pushedChars = <<>>
    /\ queriedIndices = <<>>

InitScan ==
    /\ text \in Texts
    /\ InitIdle

Init ==
    /\ InitScan
    /\ InitHostIdle
    /\ InitLocIdle
    /\ sourceFile = NoteS
    /\ \E mode \in ResolverModes, src \in ResolverSources, once \in BOOLEAN, anti \in BOOLEAN :
          /\ settings = SettingsOf(mode[1], mode[2], mode[3], once, src[1], anti)
          /\ fileCache = src[2]

Next ==
    \/ StartBridge
    \/ BridgeStep
    \/ BridgeFinish
    \/ StartRead
    \/ ReadStep
    \/ ReadFinish

Spec == Init /\ [][Next]_vars


\* The eight matching modes.
GateModes == BOOLEAN \X BOOLEAN \X BOOLEAN

InitGate ==
    /\ InitScan
    /\ InitHostIdle
    /\ InitLocIdle
    /\ sourceFile = NoteS
    /\ fileCache = CacheOf(<<>>, <<>>)
    /\ \E mode \in GateModes :
          settings = SettingsOf(mode[1], mode[2], mode[3], FALSE, FALSE, FALSE)

NextGate ==
    \/ Next
    \/ StartMath
    \/ MathStep
    \/ MathFinish

SpecGate == InitGate /\ [][NextGate]_vars

\* Code units of the texts with astral characters: a letter, a blank and the
\* two halves of a surrogate pair, in every order.
UnicodeAlphabet == {"a", " ", HI, LO}

RECURSIVE UnicodeTextsOfLen(_)
UnicodeTextsOfLen(n) ==
    IF n = 0 THEN {<<>>}
    ELSE {Append(t, c) : t \in UnicodeTextsOfLen(n - 1), c \in UnicodeAlphabet}

UnicodeTexts == UNION {UnicodeTextsOfLen(n) : n \in 0..MaxLen}

\* The bridge and the read-mode linker over texts with surrogates, whole
\* words and any part of a word.
InitUnicode ==
    /\ text \in UnicodeTexts
    /\ InitIdle
    /\ InitHostIdle
    /\ InitLocIdle
    /\ sourceFile = NoteS
    /\ fileCache = CacheOf(<<>>, <<>>)
    /\ \E any \in BOOLEAN :
          settings = SettingsOf(any, FALSE, FALSE, TRUE, FALSE, TRUE)

SpecUnicode == InitUnicode /\ [][Next]_vars

\* The plugin at work with the default settings: every task of the thread.
InitHost ==
    /\ InitIdle
    /\ InitHostIdle
    /\ InitLocIdle
    /\ text = <<>>
    /\ sourceFile = NoteS
    /\ fileCache = CacheOf(<<>>, <<>>)
    /\ settings = SettingsOf(FALSE, TRUE, TRUE, TRUE, TRUE, TRUE)

NextHost ==
    \/ MetadataResolved
    \/ VaultChanged
    \/ MetadataChanged
    \/ TimerFires
    \/ ReadReturns
    \/ plugin.running = "refresh" /\ StartBridge
    \/ plugin.running = "refresh" /\ BridgeStep
    \/ plugin.running = "refresh" /\ BridgeFinish
    \/ RefreshAccumulate
    \/ Destroy
    \/ OnloadBegin
    \/ plugin.running = "onload" /\ StartRead
    \/ plugin.running = "onload" /\ ReadStep
    \/ plugin.running = "onload" /\ ReadFinish
    \/ OnloadNext
    \/ MathBegin
    \/ plugin.running = "math" /\ StartMath
    \/ plugin.running = "math" /\ MathStep
    \/ plugin.running = "math" /\ MathFinish
    \/ MathEnd
    \/ BackfillBegin
    \/ BackfillWritten
    \/ BackfillSaved

SpecHost == InitHost /\ [][NextHost]_vars

\* The refresh cycle of the bridge on its own: the events that schedule a
\* refresh, the timer, the reads of the vault files with the scan of each, a
\* read that fails, the unload.
InitRefresh == InitHost

NextRefresh ==
    \/ MetadataResolved
    \/ VaultChanged
    \/ TimerFires
    \/ ReadReturns
    \/ ReadFails
    \/ plugin.running = "refresh" /\ StartBridge
    \/ plugin.running = "refresh" /\ BridgeStep
    \/ plugin.running = "refresh" /\ BridgeFinish
    \/ RefreshAccumulate
    \/ Destroy
    \/ UpdateSettings
    \/ SettingsSaved
    \/ HostResolves

SpecRefresh == InitRefresh /\ [][NextRefresh]_vars

\* The scan of the file read, from its reset to its resolution.
RefreshScan ==
    plugin.running = "refresh" /\ (StartBridge \/ BridgeStep \/ BridgeFinish)

\* The host runs every callback that is due: a pending timer fires, a read
\* and a save settle, synchronous code runs to its end.
FairRefresh ==
    /\ WF_vars(TimerFires)
    /\ WF_vars(ReadReturns)
    /\ WF_vars(RefreshScan)
    /\ WF_vars(RefreshAccumulate)
    /\ WF_vars(SettingsSaved)

\* The frontmatter backfill and the changes of the property names, under a
\* host that runs what is due.
NextBackfill ==
    \/ BackfillBegin
    \/ BackfillWritten
    \/ BackfillSaved
    \/ RenameProperty
    \/ RenameSaved
    \/ BackfillTimerFires
    \/ MetadataChanged

FairBackfill ==
    /\ WF_vars(BackfillBegin)
    /\ WF_vars(BackfillWritten)
    /\ WF_vars(BackfillSaved)
    /\ WF_vars(RenameSaved)
    /\ WF_vars(BackfillTimerFires)

SpecBackfillLive == InitHost /\ [][NextBackfill]_vars /\ FairBackfill

\* The requests of a refresh and the changes of the settings, with the
\* refresh they lead to, under a host that runs what is due.
NextQueue ==
    \/ MetadataResolved
    \/ TimerFires
    \/ ReadReturns
    \/ ReadFails
    \/ RefreshScan
    \/ RefreshAccumulate
    \/ Destroy
    \/ UpdateSettings
    \/ SettingsSaved

SpecQueueLive == InitRefresh /\ [][NextQueue]_vars /\ FairRefresh

\* The values of the refresh interval in the data file of the plugin: no
\* finite number, numbers below, at, between and above the limits, with and
\* without a fraction.
RawIntervals ==
    {NotFinite, Finite(-10), Finite(0), Finite(5000), Finite(7004), Finite(7005),
     Finite(60000), Finite(600000), Finite(700000)}

\* The readings of the clock.
MaxClock == 2
Times == 0..MaxClock

\* Date.now() reads another value: time has passed, or the clock was set back.
ClockMoves ==
    /\ \E t \in Times \ {plugin.now} : plugin' = [plugin EXCEPT !.now = t]
    /\ UNCHANGED <<scanVars, history, locVars>>

\* The requests of a refresh and the timers they arm, for every interval the
\* settings may hold.
InitDebounce ==
    /\ InitIdle
    /\ InitLocIdle
    /\ text = <<>>
    /\ sourceFile = NoteS
    /\ fileCache = CacheOf(<<>>, <<>>)
    /\ history = {}
    /\ \E raw \in RawIntervals, t \in Times :
          /\ settings = [SettingsOf(FALSE, TRUE, TRUE, TRUE, TRUE, TRUE)
                            EXCEPT !.virtualLinkMetadataRefreshMs = raw]
          /\ plugin = [PluginAtLoad EXCEPT !.now = t]

NextDebounce ==
    \/ MetadataResolved
    \/ VaultChanged
    \/ ClockMoves
    \/ TimerFires
    \/ ReadFails
    \/ Destroy

SpecDebounce == InitDebounce /\ [][NextDebounce]_vars

\* Code units of the texts with lines: a letter and a line break.
LineAlphabet == {"a", NL}

RECURSIVE LineTextsOfLen(_)
LineTextsOfLen(n) ==
    IF n = 0 THEN {<<>>}
    ELSE {Append(t, c) : t \in LineTextsOfLen(n - 1), c \in LineAlphabet}

LineTexts == UNION {LineTextsOfLen(n) : n \in 0..MaxLen}

\* The position conversions of the bridge over texts with line breaks.
InitLoc ==
    /\ text \in LineTexts
    /\ InitIdle
    /\ InitHostIdle
    /\ InitLocIdle
    /\ sourceFile = NoteS
    /\ fileCache = CacheOf(<<>>, <<>>)
    /\ settings = SettingsOf(FALSE, TRUE, TRUE, TRUE, TRUE, TRUE)

NextLoc ==
    \/ ConvertOffset
    \/ ConvertLoc

SpecLoc == InitLoc /\ [][NextLoc]_vars

\* Code units of the texts with markup: a backtick, a hash, a blank, a letter
\* and a line break.
MarkupAlphabet == {TICK, "#", " ", "a", NL}

RECURSIVE MarkupTextsOfLen(_)
MarkupTextsOfLen(n) ==
    IF n = 0 THEN {<<>>}
    ELSE {Append(t, c) : t \in MarkupTextsOfLen(n - 1), c \in MarkupAlphabet}

\* Longer texts with one kind of markup inside another: a wiki link, a
\* markdown link and a URL inside a code span, a code span inside a wiki link
\* and inside a header, two code spans in a row.
MarkupSamples ==
    {<<TICK, "[", "[", "a", "]", "]", TICK>>,
     <<TICK, "[", "a", "]", "(", "b", ")", TICK>>,
     <<TICK, "h", "t", "t", "p", ":", "/", "/", "a", TICK>>,
     <<"[", "[", TICK, "a", TICK, "]", "]">>,
     <<"#", " ", TICK, "a", TICK>>,
     <<TICK, "a", TICK, "b", TICK, "a", TICK>>}

MarkupTexts == UNION {MarkupTextsOfLen(n) : n \in 0..MaxLen} \cup MarkupSamples

Position(startLine, startCol, endLine, endCol) ==
    [start |-> [line |-> startLine, col |-> startCol],
     end |-> [line |-> endLine, col |-> endCol]]

\* A note with a frontmatter block that holds a code span, and the position
\* the host reports for the block: line 0, column 0 to line 2, column 3.
FrontmatterSample ==
    <<"-", "-", "-", NL, TICK, "a", TICK, NL, "-", "-", "-", NL, "a">>

FrontmatterSamplePosition == Position(0, 0, 2, 3)

\* The texts with the frontmatterPosition of each.
MarkupSources ==
    {<<t, NoPosition>> : t \in MarkupTexts}
    \cup {<<FrontmatterSample, FrontmatterSamplePosition>>}

\* The bridge over texts with markup, headers excluded.
InitMarkup ==
    /\ InitIdle
    /\ InitHostIdle
    /\ InitLocIdle
    /\ sourceFile = NoteS
    /\ settings = [SettingsOf(FALSE, TRUE, TRUE, TRUE, TRUE, TRUE)
                      EXCEPT !.includeHeaders = FALSE]
    /\ \E source \in MarkupSources :
          /\ text = source[1]
          /\ fileCache = [CacheOf(<<>>, <<>>) EXCEPT !.frontmatterPosition = source[2]]

NextMarkup ==
    \/ StartBridge
    \/ BridgeStep
    \/ BridgeFinish

SpecMarkup == InitMarkup /\ [][NextMarkup]_vars

\* The fetcher's directory patterns over the directory lists of the settings.
InitFetcher ==
    /\ text = <<>>
    /\ InitIdle
    /\ InitHostIdle
    /\ InitLocIdle
    /\ sourceFile = NoteS
    /\ fileCache = CacheOf(<<>>, <<>>)
    /\ settings = SettingsOf(FALSE, TRUE, TRUE, TRUE, TRUE, TRUE)

NextFetcher ==
    \/ RefreshSettings
    \/ GetMetaInfo

SpecFetcher == InitFetcher /\ [][NextFetcher]_vars

\* The backlinks of a target, asked for again and again.
NextBacklinks == GetBacklinksForFile

SpecBacklinks == InitFetcher /\ [][NextBacklinks]_vars


---------------------------------------------------------------------------
(* Properties.                                                              *)

Done == pc = "done"

ResultIndices == 1..Len(result)

\* The target documents of a resolved match.
Targets(m) == IF consumer = "math" THEN {m.target} ELSE m.files

\* Two half-open ranges overlap.
Overlap(a, b) == a.from < b.to /\ b.from < a.to

\* C1: the resolved list of the bridge and of the read-mode linker is sorted by
\* from, and no two of its entries overlap.
C1_SortedNonOverlapping ==
    (Done /\ consumer \in {"bridge", "read"}) =>
        \A j, k \in ResultIndices :
            j < k => /\ result[j].from <= result[k].from
                     /\ ~Overlap(result[j], result[k])

\* C1 witness: two resolved matches, with overlapping candidates dropped.
C1_Witness ==
    /\ Done /\ consumer = "bridge"
    /\ Len(result) >= 2
    /\ \E j, k \in 1..Len(matches) : j # k /\ Overlap(matches[j], matches[k])

MatchingMode(any, beginning, ending) ==
    /\ settings.matchAnyPartsOfWords = any
    /\ settings.matchBeginningOfWords = beginning
    /\ settings.matchEndOfWords = ending

\* A scan step of the bridge or of the read-mode linker is about to read the
\* character at index i.
ScanStep == pc = "scan" /\ consumer \in {"bridge", "read"} /\ i <= Len(text)

\* The character the step reads is a word boundary.
StepBoundary == checkWordBoundary(CharAt(text, i))

\* The terminals the automaton has reached when the step begins: the nodes
\* getCurrentMatchNodes reports for index i.
StepNodes == SeqToSet(getCurrentMatchNodes(currentNodes, i, ExcludedNote))

\* The exact-match-only filter leaves the node a file.
Eligible(node) ==
    filterFilesByMatchBoundaries(node.files, node.startsAtWordBoundary, StepBoundary) # {}

\* The step appends a candidate for the node.
Emitted(node) ==
    \E k \in (Len(matches) + 1)..Len(matches') :
        matches'[k].from = node.start /\ matches'[k].to = node.end

\* The gate as section 4.2 words it.
StatedGate(node) ==
    \/ settings.matchAnyPartsOfWords
    \/ /\ node.startsAtWordBoundary \/ settings.matchBeginningOfWords
       /\ StepBoundary \/ settings.matchEndOfWords

\* The gate the scan loops apply.
AppliedGate(node) ==
    \/ settings.matchAnyPartsOfWords
    \/ StepBoundary
    \/ /\ settings.matchBeginningOfWords
       /\ node.startsAtWordBoundary \/ ~settings.matchEndOfWords

\* C3 as stated: a reached terminal is emitted iff matchAnyPartsOfWords is on,
\* or (it starts at a boundary or matchBeginningOfWords is on) and (it ends at
\* a boundary or matchEndOfWords is on).
C3_StatedGating ==
    [][ScanStep => \A node \in StepNodes :
                       Eligible(node) => (Emitted(node) <=> StatedGate(node))]_vars

\* C3 amended: a reached terminal is emitted iff matchAnyPartsOfWords is on, or
\* it ends at a boundary, or matchBeginningOfWords is on and (it starts at a
\* boundary or matchEndOfWords is off).
C3_AppliedGating ==
    [][ScanStep => \A node \in StepNodes :
                       Eligible(node) => (Emitted(node) <=> AppliedGate(node))]_vars

\* C3 witness: with only matchBeginningOfWords on, a candidate that starts at a
\* boundary and ends inside a word has been emitted.
C3_Witness ==
    /\ consumer \in {"bridge", "read"}
    /\ MatchingMode(FALSE, TRUE, FALSE)
    /\ \E k \in 1..Len(matches) :
           /\ BoundaryBefore(text, matches[k].from)
           /\ ~BoundaryAfter(text, matches[k].to)

\* The offsets at which the name occurs in the text, starting at a word
\* boundary and followed by a character that is not one.
PrefixOccurrences(name) ==
    {p \in 0..(Len(text) - Len(name) - 1) :
        /\ Slice(text, p, p + Len(name)) = name
        /\ BoundaryBefore(text, p)
        /\ ~checkWordBoundary(CharAt(text, p + Len(name)))}

\* The text in which the term "ab" is followed by one more letter.
TermThenLetter == <<"a", "b", "b">>

\* C4: with matchBeginningOfWords on and matchEndOfWords and
\* matchAnyPartsOfWords off, a term that is a proper prefix of a longer word is
\* a candidate spanning exactly the term, and in "abb" the term "ab" is the
\* first resolved match.
C4_PrefixOfLongerWord ==
    (Done /\ consumer \in {"bridge", "read"} /\ MatchingMode(FALSE, TRUE, FALSE)) =>
        /\ \A name \in TermNames : \A p \in PrefixOccurrences(name) :
               \E k \in 1..Len(matches) :
                   /\ matches[k].from = p
                   /\ matches[k].to = p + Len(name)
                   /\ matches[k].isSubWord
        /\ text = TermThenLetter =>
               /\ Len(result) >= 1
               /\ result[1].from = 0 /\ result[1].to = 2 /\ result[1].files = {"B"}

\* C4 witness: the bridge has resolved "abb" under these settings.
C4_Witness ==
    /\ Done /\ consumer = "bridge" /\ MatchingMode(FALSE, TRUE, FALSE)
    /\ text = TermThenLetter
    /\ PrefixOccurrences(<<"a", "b">>) = {0}
    /\ result[1].to = 2

\* C5: no consumer resolves a match that targets an exact-match-only file
\* unless the match starts and ends at a word boundary.
C5_ExactMatchOnly ==
    Done => \A k \in ResultIndices : \A f \in Targets(result[k]) :
                (f \in Files /\ mapFilePathToExactMatchOnly(f)) =>
                    /\ BoundaryBefore(text, result[k].from)
                    /\ BoundaryAfter(text, result[k].to)

\* C6: with the three matching modes off, every candidate and every resolved
\* match of the bridge and of the read-mode linker starts and ends at a word
\* boundary.
C6_WholeWordsOnly ==
    (consumer \in {"bridge", "read"} /\ MatchingMode(FALSE, FALSE, FALSE)) =>
        /\ \A k \in 1..Len(matches) :
               /\ BoundaryBefore(text, matches[k].from)
               /\ BoundaryAfter(text, matches[k].to)
               /\ ~matches[k].isSubWord
        /\ Done => \A k \in ResultIndices :
                       /\ BoundaryBefore(text, result[k].from)
                       /\ BoundaryAfter(text, result[k].to)

\* C6 witness: a whole word is resolved in a text that also holds the term
\* inside a longer word.
C6_Witness ==
    /\ Done /\ consumer = "read" /\ MatchingMode(FALSE, FALSE, FALSE)
    /\ Len(result) = 1
    /\ \E p \in 0..(Len(text) - 1) :
           /\ text[p + 1] = "a"
           /\ ~BoundaryAfter(text, p + 1)

\* The candidate names all the targets of the match.
Names(c, m) == m.files \subseteq c.files

\* C7 as stated: with onlyLinkOnce, at most one resolved match of the text has
\* a given document among its targets.
C7_OneMatchPerTarget ==
    (Done /\ consumer \in {"bridge", "read"} /\ settings.onlyLinkOnce) =>
        \A f \in Files : Cardinality({k \in ResultIndices : f \in result[k].files}) <= 1

\* The candidate could not be linked: it lies in an exclusion range, or a
\* candidate that comes before it in resolution order overlaps it.
Unlinkable(c) ==
    \/ IntersectsAny(c.from, c.to, excludedIntervals)
    \/ \E j \in 1..Len(matches) : Before(matches[j], c) /\ Overlap(matches[j], c)

\* C7 amended: with onlyLinkOnce, no resolved match has all of its targets
\* among the targets of one resolved match before it, and every candidate that
\* comes before a resolved match in resolution order and names all of that
\* match's targets lies in an exclusion range or is overlapped by an earlier
\* candidate.
C7_LinkOnce ==
    (Done /\ consumer \in {"bridge", "read"} /\ settings.onlyLinkOnce) =>
        \A k \in ResultIndices :
            /\ \A j \in 1..(k - 1) : ~Names(result[j], result[k])
            /\ \A j \in 1..Len(matches) :
                   (Before(matches[j], result[k]) /\ Names(matches[j], result[k])) =>
                       Unlinkable(matches[j])

\* C7 witness: a term occurs twice outside exclusion ranges, unoverlapped, and
\* only its first occurrence is resolved.
C7_Witness ==
    /\ Done /\ consumer = "bridge" /\ settings.onlyLinkOnce
    /\ \E j, k \in 1..Len(matches) :
           /\ matches[j].from < matches[k].from
           /\ matches[j].files = matches[k].files
           /\ ~Unlinkable(matches[j]) /\ ~Unlinkable(matches[k])
           /\ \E r \in ResultIndices : result[r].from = matches[j].from
           /\ \A r \in ResultIndices : result[r].from # matches[k].from

\* C8: with excludeLinksToRealLinkedFiles, no resolved match of the bridge or
\* of the read-mode linker has only explicitly linked documents as targets.
C8_NoRealLinkedTargets ==
    (Done /\ consumer \in {"bridge", "read"} /\ settings.excludeLinksToRealLinkedFiles) =>
        \A k \in ResultIndices :
            ~(result[k].files \subseteq getExplicitlyLinkedFiles(fileCache))

\* The candidates of the scan outside the exclusion ranges of the text.
FreeCandidates == DropExcluded(matches, buildExcludedIntervalTree(text, fileCache))

Antialiased(m) == isMatchExcludedByAntialias(text, m.from, m.to, m.files)

\* The list the consumer has after overlap resolution, before the antialias
\* filter.
OverlapSurvivors ==
    LET sorted == SortMatches(matches)
        real == IF settings.excludeLinksToRealLinkedFiles
                THEN filterAlreadyLinked(sorted, explicitlyLinkedFiles)
                ELSE sorted
        once == IF settings.onlyLinkOnce THEN filterAlreadyLinked(real, {}) ELSE real
    IN  filterOverlapping(once, settings.onlyLinkOnce, excludedIntervals)

\* C10: with antialiasesEnabled, no resolved match has an antialias of one of
\* its targets matching the text around it, and the resolved list is the list
\* of overlap survivors without the matches the antialias filter drops.
C10_AntialiasAfterOverlap ==
    (Done /\ consumer \in {"bridge", "read"} /\ settings.antialiasesEnabled) =>
        /\ \A k \in ResultIndices : ~Antialiased(result[k])
        /\ LET Kept(m) == ~Antialiased(m)
           IN  result = SelectSeq(OverlapSurvivors, Kept)

\* C10 witness: an overlap survivor is dropped by the antialias filter, and a
\* candidate it overlaps, itself not antialiased, stays out of the resolved
\* list.
C10_Witness ==
    /\ Done /\ consumer = "bridge" /\ settings.antialiasesEnabled
    /\ \E k \in 1..Len(OverlapSurvivors) :
           /\ Antialiased(OverlapSurvivors[k])
           /\ \E j \in 1..Len(matches) :
                  /\ Overlap(matches[j], OverlapSurvivors[k])
                  /\ ~Antialiased(matches[j])
                  /\ \A r \in ResultIndices : ~Overlap(result[r], matches[j])

\* The candidates overlap resolution chooses among: those the scan pushed,
\* without the ones in an exclusion range.
OverlapCandidates ==
    {matches[j] : j \in {n \in 1..Len(matches) :
        ~IntersectsAny(matches[n].from, matches[n].to, excludedIntervals)}}

\* The candidate is kept: the resolved list has a match with its range.
IsKept(c) == \E r \in ResultIndices : result[r].from = c.from /\ result[r].to = c.to

\* C11: with no other filter enabled, the resolved list is ordered by from
\* ascending, and every candidate left out of it overlaps a kept candidate that
\* comes before it in the order "from ascending, longer first"; of "ab" and
\* "b" ending at the same offset, "ab" is kept and "b" dropped.
C11_EarliestThenLongest ==
    (Done /\ matches # <<>>) =>
        /\ \A j, k \in ResultIndices : j < k => Before(result[j], result[k])
        /\ \A c \in OverlapCandidates :
               ~IsKept(c) => \E d \in OverlapCandidates :
                               IsKept(d) /\ Before(d, c) /\ Overlap(d, c)
        /\ (text = <<"a", "b">> /\ settings.matchAnyPartsOfWords) =>
               /\ Len(result) = 1
               /\ result[1].from = 0 /\ result[1].to = 2

\* C11 witness: the math matcher has resolved a text in which a longer and a
\* shorter candidate end at the same offset, keeping the longer one only.
C11_Witness ==
    /\ Done /\ consumer = "math"
    /\ \E c, d \in OverlapCandidates :
           /\ c.to = d.to /\ d.from < c.from
           /\ IsKept(d) /\ ~IsKept(c)


\* C16 -- The scan advances by whole code points: the loop index is never the
\* second half of a surrogate pair, the chars pushed are the code points of
\* the text in order, each once, and one "\n" is pushed after the last.
RECURSIVE Flatten(_)
Flatten(chars) ==
    IF chars = <<>> THEN <<>> ELSE Head(chars) \o Flatten(Tail(chars))

\* Offset k is the low half of a surrogate pair of s.
InsidePair(s, k) == 0 < k /\ k < Len(s) /\ s[k] = HI /\ s[k + 1] = LO

CodePointCount(s) == Len(s) - Cardinality({k \in 0..Len(s) : InsidePair(s, k)})

C16_WholeCodePoints ==
    (pc \in {"scan", "done"} /\ consumer \in {"bridge", "read"}) =>
        /\ ~InsidePair(text, i)
        /\ i <= Len(text) + 1
        /\ Flatten(pushedChars) = IF i <= Len(text) THEN Slice(text, 0, i)
                                  ELSE text \o <<NL>>
        /\ \A j \in 1..Len(pushedChars) :
               /\ Len(pushedChars[j]) = 1 \/ pushedChars[j] = <<HI, LO>>
               /\ j < Len(pushedChars) =>
                      ~(pushedChars[j] = <<HI>> /\ pushedChars[j + 1] = <<LO>>)
        /\ Done =>
               /\ i = Len(text) + 1
               /\ Len(pushedChars) = CodePointCount(text) + 1
               /\ pushedChars[Len(pushedChars)] = <<NL>>

\* A pair between two lone halves has been scanned to the end.
C16_Witness ==
    /\ Done /\ consumer = "read"
    /\ text = <<LO, HI, LO, HI>>
    /\ pushedChars = <<<<LO>>, <<HI, LO>>, <<HI>>, <<NL>>>>


\* C17 -- A scan of the empty text makes no call of getCurrentMatchNodes and
\* no call of pushChar, and returns the empty list, in the read-mode linker
\* and in the metadata bridge.
C17_EmptyTextShortCircuits ==
    (text = <<>> /\ consumer \in {"bridge", "read"}) =>
        /\ pushedChars = <<>>
        /\ queriedIndices = <<>>
        /\ result = <<>>

\* C18 -- As stated: the exclusion ranges of a text are pairwise disjoint
\* half-open ranges with end > start.
Disjoint(r1, r2) == r1[2] <= r2[1] \/ r2[2] <= r1[1]

BridgeStarted == consumer = "bridge" /\ pc # "idle"

C18_DisjointRanges ==
    BridgeStarted =>
        /\ \A r \in excludedIntervals : r[2] > r[1]
        /\ \A r1, r2 \in excludedIntervals : r1 # r2 => Disjoint(r1, r2)

ExclusionPatterns == {"fence", "inlineCode", "wikiLink", "markdownLink", "url", "header"}

\* C18 -- As the code has it: every range has 0 <= start < end; the ranges one
\* pattern finds are pairwise disjoint, lie within the text and are all in
\* the set; ranges of different patterns may overlap or nest.
C18_DisjointWithinPattern ==
    BridgeStarted =>
        /\ \A r \in excludedIntervals : 0 <= r[1] /\ r[1] < r[2]
        /\ \A pattern \in ExclusionPatterns :
               LET found == RegexIntervals(pattern, text, 0)
               IN  /\ (pattern = "header" => ~settings.includeHeaders)
                         => found \subseteq excludedIntervals
                   /\ \A r \in found : r[2] <= Len(text)
                   /\ \A r1, r2 \in found : r1 # r2 => Disjoint(r1, r2)

\* A wiki link inside a code span: both ranges are in the set, one inside the
\* other.
C18_Witness ==
    /\ Done /\ consumer = "bridge"
    /\ \/ /\ text = <<TICK, "[", "[", "a", "]", "]", TICK>>
          /\ {<<0, 7>>, <<1, 6>>} \subseteq excludedIntervals
       \/ /\ text = FrontmatterSample
          /\ {<<0, 11>>, <<4, 7>>} \subseteq excludedIntervals

\* C19 -- For every offset o in [0, text.length], offsetToLoc returns the one
\* line L whose start is <= o and whose successor, if any, starts after o,
\* with col = o - lineStart[L] and offset = o, and locToOffset(L, col) is o.
LineStart(line) == buildLineOffsets(text)[line + 1]

LineCount == Len(buildLineOffsets(text))

\* The table itself: line 0 starts at 0, every later line right after a "\n".
LineTableRight ==
    /\ LineStart(0) = 0
    /\ \A line \in 1..(LineCount - 1) :
           /\ LineStart(line - 1) < LineStart(line)
           /\ text[LineStart(line)] = NL
    /\ LineCount = 1 + Cardinality({k \in 1..Len(text) : text[k] = NL})

InRangeQuery ==
    /\ query.kind = "offsetToLoc"
    /\ 0 <= query.rawOffset /\ query.rawOffset <= Len(text)

C20_OffsetsWithinText ==
    query.kind \in {"offsetToLoc", "locToOffset"} =>
        /\ 0 <= answer.offset
        /\ answer.offset <= Len(text)

\* C12 -- Once the bridge is destroyed and no refresh is running, the host's
\* metadata cache holds no virtual data: no virtual link count in
\* resolvedLinks, no synthetic ref in the links of a file cache.
C12_NoVirtualDataAfterDestroy ==
    (plugin.disposed /\ ~plugin.refreshRunning) =>
        /\ plugin.resolvedLinks = NoCounts
        /\ plugin.links = NoRefs

\* C13 -- Between the reset of a scan and its last pushed character nothing
\* but the scan's own pushChar acts on the shared cache: every step taken
\* then is a step of the same consumer on the same text, pushes the char at
\* the loop index, and neither clears nor rebuilds the tree.
ScanRunning == pc = "scan" /\ i <= Len(text)

C13_ScanUndisturbed ==
    [][ScanRunning =>
          /\ consumer' = consumer
          /\ text' = text
          /\ plugin'.running = plugin.running
          /\ plugin'.treeVersion = plugin.treeVersion
          /\ plugin'.clearedAt = plugin.clearedAt
          /\ pushedChars' = Append(pushedChars, CharAt(text, i))
          /\ currentNodes' = pushChar(currentNodes, lastCharBoundary, CharAt(text, i))]_vars

\* A read-mode scan is under way while a refresh is suspended in a read, a
\* refresh timer is pending and the backfill is suspended too.
C13_Witness ==
    /\ ScanRunning /\ i > 0
    /\ plugin.running = "onload"
    /\ plugin.refreshAt > 0
    /\ plugin.refreshTimer
    /\ plugin.exactMatchBackfillRunning

\* C14 -- No scan uses a term set older than the corpus: when a scan runs,
\* the cache has been cleared and the listeners notified for the latest
\* corpus change, and the tree is built from the corpus as it is.
C14_ScansUseCurrentTerms ==
    pc = "scan" =>
        /\ plugin.clearedAt = plugin.corpusVersion
        /\ plugin.notifiedAt = plugin.corpusVersion
        /\ plugin.treeVersion = plugin.corpusVersion

\* C15 -- As stated: two scans of the same text by the same consumer resolve
\* to the same list.
C15_SameTextSameResult ==
    \A h1, h2 \in history :
        (h1.consumer = h2.consumer /\ h1.text = h2.text) => h1.result = h2.result

\* C15 -- As the code has it: the bridge and the math matcher resolve the same
\* text to the same list every time; the read-mode linker does when the files
\* linked by the earlier text nodes of the block are the same.
C15_SameTextSameLinkedSameResult ==
    \A h1, h2 \in history :
        /\ h1.consumer \in {"bridge", "math"} => h1.linked = {}
        /\ (h1.consumer = h2.consumer /\ h1.text = h2.text /\ h1.linked = h2.linked)
               => h1.result = h2.result

\* The bridge has scanned a note twice and the read-mode linker the first
\* node of a block twice, other scans in between, each time with matches.
C15_Witness ==
    \E b1, b2, r1, r2 \in history :
        /\ b1.consumer = "bridge" /\ b2.consumer = "bridge"
        /\ b1.text = b2.text /\ b1.n = 1 /\ b2.n = 2 /\ b1.result # <<>>
        /\ r1.consumer = "read" /\ r2.consumer = "read"
        /\ r1.text = r2.text /\ r1.linked = r2.linked
        /\ r1.n = 1 /\ r2.n = 2 /\ r1.result # <<>>

\* C21: a directory pattern that is not a valid regular expression is treated
\* as matching nothing: reading the settings does not throw, and no file is
\* in that directory.
C21_InvalidPatternNotFatal ==
    /\ query.kind = "refreshSettings"
    /\ \/ ~RegExpCompiles(DirPatternSource(query.linkerDirectories))
       \/ ~RegExpCompiles(DirPatternSource(query.excludedDirectories))
    => /\ ~answer.threw
       /\ answer = refreshSettingsGuarded(query.linkerDirectories,
                                          query.excludedDirectories)

\* The (from, to, target documents) of a list of matches, in order.
Triples(ms) == [k \in 1..Len(ms) |-> <<ms[k].from, ms[k].to, ms[k].files>>]

\* C22: over a text without exclusion zones the read-mode linker and the
\* bridge push the same candidates at every index of the loop and resolve
\* them to the same ordered list of (from, to, target documents), for the same
\* text, terms, source file and settings.
C22_SamePipeline ==
    /\ pc = "scan" /\ i <= Len(text)
       => ReadCollect(i, checkWordBoundary(CharAt(text, i)))
             = BridgeCollect(i, checkWordBoundary(CharAt(text, i)))
    /\ Done /\ consumer = "read" /\ buildExcludedIntervalTree(text, fileCache) = {}
       => Triples(result)
             = Triples(BridgeResolve(matches, text,
                                     getExplicitlyLinkedFiles(fileCache), {}))
    /\ Done /\ consumer = "bridge" /\ excludedIntervals = {}
       => Triples(result) = Triples(ReadResolve(matches, text, {}, {}))

\* The host metadata and the applied-state records of the bridge.
AppliedState(p) ==
    <<p.resolvedLinks, p.links, p.appliedVirtualLinks, p.appliedVirtualRefsBySource,
      p.virtualBacklinksByTarget>>

\* C23: at most one refresh body executes at a time.  A refreshNow call that
\* arrives while refreshRunning is true sets refreshQueued and changes neither
\* the host metadata, nor the applied-state records, nor the progress of the
\* running body; and refreshRunning is true exactly while a refresh body is
\* under way, so it is false again after an early return or an exception.
C23_OneRefreshAtATime ==
    [][/\ TimerFires /\ plugin.refreshRunning
          => /\ plugin'.refreshQueued
             /\ plugin'.refreshRunning
             /\ AppliedState(plugin') = AppliedState(plugin)
             /\ plugin'.refreshAt = plugin.refreshAt
             /\ plugin'.linkCounts = plugin.linkCounts
             /\ plugin'.refsBySource = plugin.refsBySource
       /\ plugin'.refreshRunning <=> plugin'.refreshAt > 0]_vars

\* A refreshNow call has arrived while a refresh body was suspended in a read
\* with matches of an earlier file accumulated.
C23_Witness ==
    /\ plugin.refreshRunning
    /\ plugin.refreshQueued
    /\ plugin.refreshAt > 1
    /\ plugin.linkCounts # NoCounts

\* Virtual data of the bridge is in the host metadata.
VirtualDataApplied ==
    \/ plugin.appliedVirtualLinks # NoCounts
    \/ plugin.appliedVirtualRefsBySource # NoRefs

IntegrationsOff ==
    ~settings.includeVirtualLinksInGraph /\ ~settings.includeVirtualLinksInBacklinks

\* C24: once both integrations are off or the linker is deactivated and the
\* settings update has been notified, the applied virtual link counts and
\* refs are eventually removed from the host metadata.
C24_CleanupAfterSwitchOff ==
    (/\ IntegrationsOff \/ ~settings.linkerActivated
     /\ plugin.settingsNotified)
       ~> ~VirtualDataApplied

\* C25: the count resolvedLinks holds for a (source, target) pair is never
\* lower than the count of the real links of that pair, whatever refreshes
\* and rebuilds of resolvedLinks by the host come before, and an entry the
\* host populated for a source is never deleted.
C25_RealLinksKept ==
    /\ \A pair \in LinkPairs : plugin.resolvedLinks[pair] >= plugin.realLinks[pair]
    /\ plugin.hostSources \subseteq plugin.resolvedSources

\* Refresh bodies a run can start.
StartCounts == 1..(MaxEvents + MaxSettingsUpdates)

\* C26: a refresh requested while a refresh runs is not lost: unless the
\* bridge is destroyed or both integrations are off, another refresh body
\* starts after the running one.
C26_QueuedRefreshStarts ==
    \A n \in StartCounts :
        (plugin.refreshQueued /\ plugin.refreshRunning /\ plugin.refreshStarts = n)
           ~> \/ plugin.refreshStarts > n
              \/ plugin.disposed
              \/ IntegrationsOff

\* A request has arrived while the second refresh body of the run was
\* running, the first one having come and gone.
C26_Witness ==
    /\ ~plugin.disposed
    /\ ~IntegrationsOff
    /\ plugin.refreshQueued
    /\ plugin.refreshRunning
    /\ plugin.refreshStarts = 2

\* C27: a 'resolved' event the bridge triggers itself schedules no refresh.
\* A step that completes a refresh body without a queued request, whether
\* the body was suspended in a read or ran through within the timer's
\* callback, and a step that destroys the bridge leave no timer pending that
\* was not pending before, so no refresh follows without an event from
\* outside.
C27_NoSelfTriggeredRefresh ==
    [][/\ plugin.refreshRunning /\ ~plugin'.refreshRunning /\ ~plugin.refreshQueued
          => (plugin'.refreshTimer => plugin.refreshTimer)
       /\ TimerFires /\ ~plugin.refreshRunning /\ ~plugin'.refreshRunning
          => ~plugin'.refreshTimer
       /\ Destroy => ~plugin'.refreshTimer
       /\ ~plugin'.suppressResolvedEvent]_vars

\* A refresh has applied its data and triggered 'resolved'; nothing is pending.
C27_Witness ==
    /\ ~plugin.disposed
    /\ VirtualDataApplied
    /\ ~plugin.refreshRunning
    /\ ~plugin.refreshTimer
    /\ ~plugin.refreshQueued
    /\ plugin.refreshStarts = 1
    /\ plugin.events = 1

\* No pass has started with the property names as they are now.
NameStale == plugin.backfillNames # plugin.propertyNames

\* C28: after a change of a property name the done flags are never both set
\* while no backfill pass has started with the new name, and a pass with the
\* new name eventually starts, also when the change arrives during a pass.
C28_BackfillWithNewName ==
    /\ [](/\ plugin.exactMatchPropertyBackfillDone
          /\ plugin.antialiasPropertyBackfillDone
          => ~NameStale)
    /\ NameStale ~> ~NameStale

\* The virtual refs with this key among the items of an entry.
KeyCount(entry, key) ==
    Cardinality({k \in 1..Len(entry.items) : entry.items[k].key = key})

\* C29: whatever result the merge starts from, one the host reuses included,
\* each virtual ref is in the entry of its source at most once, and the count
\* of the result has grown by the number of refs the call put into the
\* entries.
C29_MergeIdempotent ==
    query.kind = "getBacklinksForFile"
    => /\ \A source \in BacklinkSources, key \in {"k1", "k2"} :
             KeyCount(answer.result.data[source], key) <= 1
       /\ answer.result.count - query.original.count
             = PushedFor(query.original.data["S"], query.virtualBySource["S"])
               + PushedFor(query.original.data["T"], query.virtualBySource["T"])

\* The interval the settings hold, limited to the two bounds, in tenths of a
\* millisecond; the interval of a setting that is no finite number.
ClampedTenths(s) ==
    IF ~s.virtualLinkMetadataRefreshMs.finite THEN 10 * REFRESH_INTERVAL_DEFAULT_MS
    ELSE Min(10 * REFRESH_INTERVAL_MAX_MS,
             Max(10 * REFRESH_INTERVAL_MIN_MS, s.virtualLinkMetadataRefreshMs.tenths))

\* The handler of an event has called scheduleRefresh and the call went past
\* its two early returns.
EffectiveSchedule ==
    /\ MetadataResolved \/ VaultChanged
    /\ ~IntegrationsOff

\* At most one timer is pending, the one whose handle the bridge holds; an
\* effective scheduleRefresh leaves exactly one, armed in that call.
OneTimer ==
    /\ plugin'.timers <= 1
    /\ plugin'.refreshTimer = (plugin'.timers = 1)
    /\ EffectiveSchedule
          => /\ plugin'.timers = 1
             /\ plugin'.refreshDelay = delayMs(plugin)

\* C30 as stated: at most one refresh timer is pending, an effective
\* scheduleRefresh replaces the pending timer by a new one, and the delay of
\* the pending timer is never shorter than the configured interval limited
\* to [500, 60000] ms (6000 ms when the setting is no finite number).
C30_DelayNotBelowClamped ==
    [][/\ OneTimer
       /\ plugin'.refreshTimer
             => 10 * plugin'.refreshDelay >= ClampedTenths(settings')]_vars

\* C30: at most one refresh timer is pending, an effective scheduleRefresh
\* replaces the pending timer by a new one, and the delay of the pending timer
\* is never shorter than the configured interval limited to [500, 60000] ms
\* and rounded to whole milliseconds (6000 ms when the setting is no finite
\* number), which is less than half a millisecond away from the limited
\* interval.
C30_DelayNotBelowRounded ==
    [][/\ OneTimer
       /\ plugin'.refreshTimer
             => /\ plugin'.refreshDelay >= MathRound(ClampedTenths(settings'))
                /\ 10 * plugin'.refreshDelay > ClampedTenths(settings') - 5
                /\ plugin'.refreshDelay >= REFRESH_INTERVAL_MIN_MS]_vars

\* A burst: the second event found the timer of the first pending and
\* replaced it; the interval of the settings has a fraction.
C30_Witness ==
    /\ plugin.events = 2
    /\ plugin.refreshStarts = 0
    /\ ~plugin.disposed
    /\ plugin.refreshTimer
    /\ plugin.timers = 1
    /\ settings.virtualLinkMetadataRefreshMs = Finite(7004)
    /\ plugin.refreshDelay = 700

=============================================================================
